---- MODULE Spec2Model ----
(***************************************************************************)
(* Model of biothings.hub.dataindex.indexer: the Indexer pipeline          *)
(* (pre / index / post), the batch scheduling loop of Indexer.do_index     *)
(* with its completion callbacks, and the admission predicate that         *)
(* ProcessInfo hands to the job manager.                                   *)
(*                                                                         *)
(* The event loop is single threaded: a coroutine runs without interruption*)
(* between two suspension points, so every action below is one such        *)
(* segment (from one `yield from` that really suspends to the next).       *)
(* Worker processes and future callbacks are separate actions that         *)
(* interleave with the segments.                                           *)
(***************************************************************************)
EXTENDS Integers, Sequences, FiniteSets, TLC

(* ------------------------------ bounds -------------------------------- *)

\* most batches one index run is split into
MaxBatches == 3

\* batches of the first run when two runs are interleaved (the second has one)
MaxConcBatches == 3

\* largest per-environment concurrency limit that is configured
MaxConcurrency == 2

\* polls of the snapshot state that are followed while it stays IN_PROGRESS
MaxPolls == 2

\* "args" dicts that are followed on the heap
MaxDicts == 3

(* ------------------------- program constants -------------------------- *)

MinBatchSize == 50

MaxBatchSize == 10000

INDEXER_CATEGORY == "indexer"

INDEXMANAGER_CATEGORY == "indexmanager"

ValidModes == {"index", "resume", "merge", "purge"}

StepNames == {"pre", "index", "post"}

(* ------------------------------ universe ------------------------------ *)

RunIds == {1, 2}

SingleRun == {1}

Envs == {"env_a", "env_b"}

IndexNames == {"index_a", "index_b"}

\* with the indexes IndexManager.index names after the build they index
BuildIndexNames == IndexNames \cup {"build_plain", "build_cold"}

\* exceptions are records, so that any two can be compared
Err(kind, job) == [kind |-> kind, job |-> job]

NoErr == Err("none", 0)

\* the value of the `steps` argument: a list or tuple of names, one name
\* given as a str, or something that is neither
StepsList(seq) == [kind |-> "list", val |-> seq]

StepsStr(name) == [kind |-> "str", val |-> <<name>>]

StepsOther == [kind |-> "other", val |-> <<>>]

\* the value of the `ids` argument: None, or a list of n ids
NoIds == [given |-> FALSE, len |-> 0]

IdList(n) == [given |-> TRUE, len |-> n]

Range(seq) == {seq[i] : i \in DOMAIN seq}

\* every list without repetition over a set of names
Perms(S) ==
    {seq \in UNION {[1..n -> S] : n \in 0..Cardinality(S)} :
        \A i, j \in DOMAIN seq : i # j => seq[i] # seq[j]}

\* the lists of names tried: every subset of the step names in some order,
\* the full set and every pair in two orders
StepLists ==
    Perms(StepNames) \ {<<"index", "pre", "post">>, <<"index", "post", "pre">>,
                        <<"pre", "post", "index">>, <<"post", "pre", "index">>}

StepsArgs ==
    {StepsList(seq) : seq \in StepLists \cup {<<"publish">>}}
        \cup {StepsStr(n) : n \in StepNames}
        \cup {StepsOther}

ModeArgs == ValidModes \cup {"bogus", "None"}

BatchSizeArgs == {MinBatchSize - 1, MinBatchSize, MaxBatchSize, MaxBatchSize + 1}

VARIABLES
    pc,             \* run -> position of the index() coroutine
    steps,          \* run -> the steps argument
    batch_size,     \* run -> the batch_size argument
    mode,           \* run -> the mode argument
    env_name,       \* run -> Indexer.env_name
    es_index_name,  \* run -> Indexer.es_index_name
    concurrency,    \* environment -> its configured concurrency limit
    registrar,      \* run -> the step status records written, in order
    outcome,        \* run -> what the caller of index() observed
    total,          \* run -> Schedule.total
    finished,       \* run -> Schedule.finished
    jobs,           \* run -> the jobs list of do_index
    error,          \* run -> the error cell of do_index
    gather_exc,     \* run -> the exception set on the gather future
    gathered,       \* run -> number of results the gather future has collected
    ready,          \* run -> the event loop's ready queue, as far as it holds
                    \*        callbacks of the run's futures and its wake-ups
    first_error,    \* run -> history: the first error batch_finished recorded
    es_index,       \* index name -> 0 (absent) or the incarnation that exists
    es_created,     \* index name -> number of incarnations created so far
    es_at_pre,      \* run -> history: es_index of the destination at pre start
    es_log,         \* calls that changed or created an index, in order
    cnt,            \* run -> the local cnt of index()
    other_jobs,     \* job-manager entries that are not batch-indexing jobs
    source_ids,     \* run -> number of ids the id provider supplies
    ids,            \* run -> the ids argument
    snap,           \* snapshot call -> position of SnapshotEnv.snapshot
    coldhot,        \* the ColdHotIndexer.index coroutine: position, arguments,
                    \* local cnt, what its caller observed, the hot post hook
    manager,        \* the IndexManager: _config, register, and what its last
                    \* call did
    registry,       \* the dicts IndexManager.register holds, and the heap of
                    \* their "args" dicts
    snapmgr,        \* the SnapshotManager: register, and its snapshot_build
                    \* coroutine
    senv,           \* the SnapshotEnv that is followed: its repcfg, and the
                    \* build document _doc finds
    cloud,          \* the bucket, the repository and the snapshot as the
                    \* remote services hold them, and the calls that changed them
    cfg,            \* snapshot call -> the local cfg of SnapshotEnv.snapshot
    thread,         \* snapshot call -> the step function running in a thread
    snap_x,         \* snapshot call -> the cumulative result x
    snap_registrar, \* snapshot call -> the step status records written, in order
    snap_outcome,   \* snapshot call -> what the holder of the future observed
    fmt             \* a RepositoryConfig.format call and a second one on its
                    \* result

vars ==
    <<pc, steps, batch_size, mode, env_name, es_index_name, concurrency,
      registrar, outcome, total, finished, jobs, error, gather_exc,
      gathered, ready, first_error, es_index, es_created, es_at_pre, es_log, cnt,
      other_jobs, source_ids, ids, snap, coldhot, manager, registry, snapmgr, senv,
      cloud, cfg, thread, snap_x, snap_registrar, snap_outcome, fmt>>

argVars == <<batch_size, mode, env_name, es_index_name, concurrency, total>>

\* the snapshot calls and what they work on
snapVars == <<senv, cloud, cfg, thread, snap_x, snap_registrar, snap_outcome, fmt>>

\* the registries of the two managers
regVars == <<registry, snapmgr>>

\* state of the hub outside the Indexer runs
extVars == <<source_ids, ids, snap, coldhot, manager, snapVars, regVars>>

esVars == <<es_index, es_created, es_log>>

jobVars == <<finished, jobs, error, gather_exc, gathered, ready, first_error>>

(* ----------------------- status registrar (JSR) ----------------------- *)

StatusRecord(step, state, err, count) ==
    [step |-> step, state |-> state, err |-> err, count |-> count]

Started(reg, step) == Append(reg, StatusRecord(step, "started", NoErr, 0))

Succeed(reg, step, count) ==
    Append(reg, StatusRecord(step, "succeeded", NoErr, count))

Failed(reg, step, err) == Append(reg, StatusRecord(step, "failed", err, 0))

(* ------------------------------ Schedule ------------------------------ *)

\* number of batch indices the Schedule yields: ceil(total / batch_size)
NumBatches(t, b) == (t + b - 1) \div b

\* number of ids in batch k (k counted from 0) of t ids cut by b
BatchLen(t, b, k) == IF (k + 1) * b <= t THEN b ELSE t - k * b

\* Schedule.completed(ignore_mismatch): TRUE when it returns, FALSE when it raises
ScheduleCompleted(fin, t, ignore_mismatch) == ignore_mismatch \/ fin = t

\* the id provider (iter_n over the given ids, id_feeder over the
\* collection): the sizes of the id batches it yields for n ids cut by b
RECURSIVE IdBatches(_, _)
IdBatches(n, b) ==
    IF n <= 0 THEN <<>>
    ELSE IF n <= b THEN <<n>>
    ELSE <<b>> \o IdBatches(n - b, b)

\* document counts a batch job may report for a batch of n ids
ReportedCounts(n) == {n, n - 1} \cap Nat

(* ------------------------ the caller's view --------------------------- *)

Pending == [state |-> "pending", err |-> NoErr, cnt |-> 0]

Returned(c) == [state |-> "returned", err |-> NoErr, cnt |-> c]

Raised(e) == [state |-> "raised", err |-> e, cnt |-> 0]

Requested(r, name) == name \in Range(steps[r].val)

Dest(r) == es_index_name[r]

(* ---------------------- Indexer.index: entry -------------------------- *)

\* the four assertions at the top of index(), on the normalised steps
ArgumentsAccepted(st, bs, md) ==
    /\ MinBatchSize <= bs /\ bs <= MaxBatchSize
    /\ st.kind = "list"
    /\ md # "None"

\* index() is called: a str is wrapped in a list, the assertions run
Call(r) ==
    /\ pc[r] = "call"
    /\ LET st == IF steps[r].kind = "str" THEN StepsList(steps[r].val) ELSE steps[r]
       IN  /\ steps' = [steps EXCEPT ![r] = st]
           /\ IF ArgumentsAccepted(st, batch_size[r], mode[r])
              THEN /\ pc' = [pc EXCEPT ![r] = "at_pre"]
                   /\ outcome' = outcome
              ELSE /\ pc' = [pc EXCEPT ![r] = "done"]
                   /\ outcome' = [outcome EXCEPT ![r] = Raised(Err("AssertionError", 0))]
    /\ UNCHANGED <<argVars, extVars, registrar, jobVars, esVars, es_at_pre, cnt, other_jobs>>

\* StepFailed without the `raise`: the failure is recorded and index() goes on
StepFailedSwallowed(r, reg, step, e) ==
    /\ registrar' = [registrar EXCEPT ![r] = Failed(reg, step, e)]
    /\ outcome' = [outcome EXCEPT ![r] = IF step = "post" THEN Returned(cnt[r]) ELSE @]
    /\ pc' = [pc EXCEPT ![r] =
                IF step = "pre" THEN "at_index"
                ELSE IF step = "index" THEN "at_post" ELSE "done"]

\* StepFailed without status.failed(): the exception is raised unrecorded
StepFailedUnrecorded(r, reg, step, e) ==
    /\ registrar' = [registrar EXCEPT ![r] = reg]
    /\ outcome' = [outcome EXCEPT ![r] = Raised(e)]
    /\ pc' = [pc EXCEPT ![r] = "done"]

\* the except clause around a step: record `failed`, re-raise
StepFailed(r, reg, step, e) ==
    /\ registrar' = [registrar EXCEPT ![r] = Failed(reg, step, e)]
    /\ outcome' = [outcome EXCEPT ![r] = Raised(e)]
    /\ pc' = [pc EXCEPT ![r] = "done"]

\* the else clause around a step: record `succeeded`, go on to the next `if`
StepSucceeded(r, reg, step, count, next) ==
    /\ registrar' = [registrar EXCEPT ![r] = Succeed(reg, step, count)]
    /\ outcome' = outcome
    /\ pc' = [pc EXCEPT ![r] = next]

(* ------------------------- Indexer.pre_index -------------------------- *)

\* pre_index_branch with mode 'index' handled like 'purge'
pre_index_branch_IndexPurges(md) ==
    IF md \in {"index", "None", "purge"} THEN "purge"
    ELSE IF md \in {"resume", "merge"} THEN "must_exist"
    ELSE "invalid"

\* pre_index_branch with mode 'purge' handled like 'index'
pre_index_branch_PurgeChecks(md) ==
    IF md \in {"index", "None", "purge"} THEN "must_not_exist"
    ELSE IF md \in {"resume", "merge"} THEN "must_exist"
    ELSE "invalid"

\* which branch of pre_index a mode takes
pre_index_branch(md) ==
    IF md \in {"index", "None"} THEN "must_not_exist"
    ELSE IF md \in {"resume", "merge"} THEN "must_exist"
    ELSE IF md = "purge" THEN "purge"
    ELSE "invalid"

\* exists_verdict where 'resume' / 'merge' create a missing index
exists_verdict_CreatesMissing(branch, exists) ==
    IF branch = "must_not_exist"
    THEN IF exists THEN "raise" ELSE "create"
    ELSE IF exists THEN "return" ELSE "create"

\* what pre_index does once client.indices.exists has answered
exists_verdict(branch, exists) ==
    IF branch = "must_not_exist"
    THEN IF exists THEN "raise" ELSE "create"
    ELSE IF exists THEN "return" ELSE "raise"

\* `if "pre" in steps`: status.started(), then pre_index up to its first request
PreStart(r) ==
    /\ pc[r] = "at_pre"
    /\ IF ~Requested(r, "pre")
       THEN /\ pc' = [pc EXCEPT ![r] = "at_index"]
            /\ UNCHANGED <<registrar, outcome, es_at_pre>>
       ELSE LET reg == Started(registrar[r], "pre")
                br == pre_index_branch(mode[r])
            IN  /\ es_at_pre' = [es_at_pre EXCEPT ![r] = es_index[Dest(r)]]
                /\ IF br = "invalid"
                   THEN StepFailed(r, reg, "pre", Err("ValueError", 0))
                   ELSE /\ registrar' = [registrar EXCEPT ![r] = reg]
                        /\ outcome' = outcome
                        /\ pc' = [pc EXCEPT ![r] =
                                    IF br = "purge" THEN "pre_delete" ELSE "pre_exists"]
    /\ UNCHANGED <<steps, argVars, extVars, jobVars, esVars, cnt, other_jobs>>

\* client.indices.exists answers
PreExistsReturn(r) ==
    /\ pc[r] = "pre_exists"
    /\ LET verdict == exists_verdict(pre_index_branch(mode[r]), es_index[Dest(r)] # 0)
       IN  IF verdict = "raise"
           THEN StepFailed(r, registrar[r], "pre", Err("IndexerException", 0))
           ELSE IF verdict = "return"
           THEN StepSucceeded(r, registrar[r], "pre", 0, "at_index")
           ELSE /\ pc' = [pc EXCEPT ![r] = "pre_create"]
                /\ UNCHANGED <<registrar, outcome>>
    /\ UNCHANGED <<steps, argVars, extVars, jobVars, esVars, es_at_pre, cnt, other_jobs>>

EsCall(op, r, effect) == [op |-> op, index |-> Dest(r), run |-> r, effect |-> effect]

\* client.indices.delete(ignore_unavailable=True) answers
PreDeleteReturn(r) ==
    /\ pc[r] = "pre_delete"
    /\ es_index' = [es_index EXCEPT ![Dest(r)] = 0]
    /\ es_log' = Append(es_log, EsCall("delete", r, es_index[Dest(r)] # 0))
    /\ pc' = [pc EXCEPT ![r] = "pre_create"]
    /\ UNCHANGED <<steps, argVars, extVars, jobVars, es_created, es_at_pre, registrar,
                   outcome, cnt, other_jobs>>

\* PreCreateReturn where the refusal of an existing name is ignored
PreCreateReturn_IgnoresExisting(r) ==
    /\ pc[r] = "pre_create"
    /\ StepSucceeded(r, registrar[r], "pre", 0, "at_index")
    /\ IF es_index[Dest(r)] # 0
       THEN /\ es_log' = Append(es_log, EsCall("create", r, FALSE))
            /\ UNCHANGED <<es_index, es_created>>
       ELSE /\ es_created' = [es_created EXCEPT ![Dest(r)] = @ + 1]
            /\ es_index' = [es_index EXCEPT ![Dest(r)] = es_created[Dest(r)] + 1]
            /\ es_log' = Append(es_log, EsCall("create", r, TRUE))
    /\ UNCHANGED <<steps, argVars, extVars, jobVars, es_at_pre, cnt, other_jobs>>

\* client.indices.create answers: the search engine refuses an existing name
PreCreateReturn(r) ==
    /\ pc[r] = "pre_create"
    /\ IF es_index[Dest(r)] # 0
       THEN /\ StepFailed(r, registrar[r], "pre", Err("RequestError", 0))
            /\ es_log' = Append(es_log, EsCall("create", r, FALSE))
            /\ UNCHANGED <<es_index, es_created>>
       ELSE /\ StepSucceeded(r, registrar[r], "pre", 0, "at_index")
            /\ es_created' = [es_created EXCEPT ![Dest(r)] = @ + 1]
            /\ es_index' = [es_index EXCEPT ![Dest(r)] = es_created[Dest(r)] + 1]
            /\ es_log' = Append(es_log, EsCall("create", r, TRUE))
    /\ UNCHANGED <<steps, argVars, extVars, jobVars, es_at_pre, cnt, other_jobs>>

(* ----------------------------- job manager ---------------------------- *)

\* a batch job as do_index and the job manager see it: the state of its
\* future, whether its worker process is still alive, and the count its
\* future holds
Job(fut, alive, count) == [fut |-> fut, alive |-> alive, count |-> count]

\* job_manager.jobs: one entry (the job's pinfo) per live worker
JobManagerJobs ==
    LET live == {rj \in UNION {{<<r, j>> : j \in DOMAIN jobs[r]} : r \in RunIds} :
                    jobs[rj[1]][rj[2]].alive}
    IN  {[category |-> INDEXER_CATEGORY, source |-> env_name[rj[1]], id |-> rj] :
            rj \in live} \cup other_jobs

\* ProcessInfo.get_predicates: by_indexer_environment
by_indexer_environment(r, job) ==
    /\ job.category = INDEXER_CATEGORY
    /\ job.source = env_name[r]

\* limit_indexer_concurrency with <= in place of <
limit_indexer_concurrency_Inclusive(r, jm_jobs) ==
    Cardinality({job \in jm_jobs : by_indexer_environment(r, job)})
        <= concurrency[env_name[r]]

\* ProcessInfo.get_predicates: limit_indexer_concurrency
limit_indexer_concurrency(r, jm_jobs) ==
    Cardinality({job \in jm_jobs : by_indexer_environment(r, job)})
        < concurrency[env_name[r]]

\* the scheduler launches a job only when every predicate of its pinfo holds
Admitted(r) == limit_indexer_concurrency(r, JobManagerJobs)

(* -------------------------- Indexer.do_index -------------------------- *)

Min(a, b) == IF a <= b THEN a ELSE b

\* ignore_mismatch set in every mode
ignore_mismatch_Always(md) == TRUE

\* the flag do_index passes to schedule.completed
ignore_mismatch(md) == md = "resume"

\* Batches that drops a last batch that is not full
Batches_Floor(r) == total[r] \div batch_size[r]

\* iterations of `for batch_num, ids in zip(schedule, id_provider)`: zip
\* ends with the shorter of the Schedule and the id provider
Batches(r) ==
    Min(NumBatches(total[r], batch_size[r]),
        Len(IdBatches(source_ids[r], batch_size[r])))

\* the batch number zip pairs with the j-th id batch: the Schedule yields
\* the batch indices 0, 1, 2, ...
batch_num(j) == j - 1

\* number of ids in the batch handed to the j-th job
DispatchedIds(r, j) == IdBatches(source_ids[r], batch_size[r])[j]

SetJob(r, j, job) == [jobs EXCEPT ![r][j] = job]

\* entries of the ready queue (call_soon keeps them first in, first out):
\* "bf" is batch_finished of job j, "gcb" the callback gather attached to
\* job j, "both" the two in a row, "wake" the next step of do_index
Callback(kind, j) == [kind |-> kind, job |-> j]

Wake == Callback("wake", 0)

\* a future that schedules batch_finished alone when it completes: gather
\* is never told
DoneCallbacks_GatherNotTold(r, j) == Callback("bf", j)

\* the callbacks a future schedules when it completes: batch_finished, and
\* gather's once gather has been called on it
DoneCallbacks(r, j) ==
    Callback(IF pc[r] = "gather" THEN "both" ELSE "bf", j)

\* whether batch_finished has run for job j
Reported(r, j) ==
    /\ jobs[r][j].fut # "running"
    /\ \A i \in DOMAIN ready[r] :
          ready[r][i].job = j => ready[r][i].kind = "gcb"

WakeIsNext(r) == ready[r] # <<>> /\ Head(ready[r]) = Wake

\* the job numbers of a set, in list order
RECURSIVE InOrder(_, _)
InOrder(S, n) ==
    IF n = 0 THEN <<>>
    ELSE IF n \in S THEN Append(InOrder(S, n - 1), n) ELSE InOrder(S, n - 1)

CallbacksFor(kind, S, n) ==
    LET seq == InOrder(S, n) IN [i \in DOMAIN seq |-> Callback(kind, seq[i])]

\* `if "index" in steps`: status.started(), do_index up to its first suspension
IndexStart(r) ==
    /\ pc[r] = "at_index"
    /\ IF ~Requested(r, "index")
       THEN /\ pc' = [pc EXCEPT ![r] = "at_post"]
            /\ UNCHANGED <<registrar, outcome, cnt, ready>>
       ELSE LET reg == Started(registrar[r], "index")
            IN  IF Batches(r) = 0
                THEN \* nothing to gather: schedule.completed, return total
                     /\ ready' = ready
                     /\ IF ScheduleCompleted(0, total[r], ignore_mismatch(mode[r]))
                        THEN /\ StepSucceeded(r, reg, "index", total[r], "at_post")
                             /\ cnt' = [cnt EXCEPT ![r] = total[r]]
                        ELSE /\ StepFailed(r, reg, "index", Err("ScheduleMismatch", 0))
                             /\ cnt' = cnt
                ELSE \* first batch: asyncio.sleep(0.0)
                     /\ registrar' = [registrar EXCEPT ![r] = reg]
                     /\ pc' = [pc EXCEPT ![r] = "yield"]
                     /\ ready' = [ready EXCEPT ![r] = Append(@, Wake)]
                     /\ UNCHANGED <<outcome, cnt>>
    /\ UNCHANGED <<steps, argVars, extVars, finished, jobs, error, gather_exc, gathered,
                   first_error, esVars, es_at_pre, other_jobs>>

Running(js) == {j \in DOMAIN js : js[j].fut = "running"}

\* job.cancel() for every job that is not done
CancelPending(js) ==
    [j \in DOMAIN js |->
        IF js[j].fut = "running" THEN [js[j] EXCEPT !.fut = "cancelled"] ELSE js[j]]

\* the loop resumes from asyncio.sleep(0.0): fail fast, or ask for the next job
LoopResume(r) ==
    /\ pc[r] = "yield"
    /\ WakeIsNext(r)
    /\ IF error[r] # NoErr
       THEN /\ jobs' = [jobs EXCEPT ![r] = CancelPending(jobs[r])]
            /\ ready' = [ready EXCEPT ![r] =
                            Tail(@) \o CallbacksFor("bf", Running(jobs[r]), Len(jobs[r]))]
            /\ StepFailed(r, registrar[r], "index", error[r])
       ELSE /\ pc' = [pc EXCEPT ![r] = "admission"]
            /\ ready' = [ready EXCEPT ![r] = Tail(@)]
            /\ UNCHANGED <<jobs, registrar, outcome>>
    /\ UNCHANGED <<steps, argVars, extVars, finished, error, gather_exc, gathered, first_error,
                   esVars, es_at_pre, cnt, other_jobs>>

\* defer_to_process returns: the job is launched, gets its callback and is
\* appended; zip then yields the next batch (sleep again) or ends the loop,
\* and gather attaches its callback to every job
LaunchJob(r) ==
    /\ pc[r] = "admission"
    /\ Admitted(r)
    /\ LET js == Append(jobs[r], Job("running", TRUE, 0))
       IN  /\ jobs' = [jobs EXCEPT ![r] = js]
           /\ IF Len(js) < Batches(r)
              THEN /\ pc' = [pc EXCEPT ![r] = "yield"]
                   /\ ready' = [ready EXCEPT ![r] = Append(@, Wake)]
              ELSE /\ pc' = [pc EXCEPT ![r] = "gather"]
                   /\ ready' = [ready EXCEPT ![r] =
                                   @ \o CallbacksFor("gcb", DOMAIN js \ Running(js), Len(js))]
    /\ UNCHANGED <<steps, argVars, extVars, finished, error, gather_exc, gathered, first_error,
                   registrar, outcome, esVars, es_at_pre, cnt, other_jobs>>

\* a worker returns the number of documents it indexed
JobSucceed(r, j) ==
    /\ j \in DOMAIN jobs[r]
    /\ jobs[r][j].fut = "running"
    /\ \E c \in ReportedCounts(DispatchedIds(r, j)) :
          jobs' = SetJob(r, j, Job("ok", FALSE, c))
    /\ ready' = [ready EXCEPT ![r] = Append(@, DoneCallbacks(r, j))]
    /\ UNCHANGED <<pc, steps, argVars, extVars, finished, error, gather_exc, gathered,
                   first_error, registrar, outcome, esVars, es_at_pre, cnt, other_jobs>>

\* a worker raises
JobFail(r, j) ==
    /\ j \in DOMAIN jobs[r]
    /\ jobs[r][j].fut = "running"
    /\ jobs' = SetJob(r, j, Job("err", FALSE, 0))
    /\ ready' = [ready EXCEPT ![r] = Append(@, DoneCallbacks(r, j))]
    /\ UNCHANGED <<pc, steps, argVars, extVars, finished, error, gather_exc, gathered,
                   first_error, registrar, outcome, esVars, es_at_pre, cnt, other_jobs>>

\* the worker of a cancelled future ends
WorkerExit(r, j) ==
    /\ j \in DOMAIN jobs[r]
    /\ jobs[r][j].fut = "cancelled"
    /\ jobs[r][j].alive
    /\ jobs' = SetJob(r, j, [jobs[r][j] EXCEPT !.alive = FALSE])
    /\ UNCHANGED <<pc, steps, argVars, extVars, finished, error, gather_exc, gathered, ready,
                   first_error, registrar, outcome, esVars, es_at_pre, cnt, other_jobs>>

\* the value batch_finished leaves in the error cell when a future raised exc
error_after(err, exc) == exc

\* batch_finished with `schedule.finished = future.result()`
batch_finished_LastCount ==
    \E r \in RunIds :
        /\ ready[r] # <<>>
        /\ Head(ready[r]) # Wake
        /\ LET cb == Head(ready[r])
               job == jobs[r][cb.job]
               bf == cb.kind \in {"bf", "both"}
               gcb == /\ cb.kind \in {"gcb", "both"}
                      /\ pc[r] = "gather"
                      /\ gather_exc[r] = NoErr
                      /\ gathered[r] < Len(jobs[r])
               resolved == gcb /\ (job.fut # "ok" \/ gathered[r] + 1 = Len(jobs[r]))
           IN  /\ finished' = [finished EXCEPT ![r] =
                                  IF bf /\ job.fut = "ok" THEN job.count ELSE @]
               /\ error' = [error EXCEPT ![r] =
                               IF bf /\ job.fut = "err"
                               THEN error_after(@, Err("BatchError", cb.job)) ELSE @]
               /\ first_error' = [first_error EXCEPT ![r] =
                                     IF bf /\ job.fut = "err" /\ @ = NoErr
                                     THEN Err("BatchError", cb.job) ELSE @]
               /\ gather_exc' = [gather_exc EXCEPT ![r] =
                                    IF gcb /\ job.fut # "ok"
                                    THEN Err(IF job.fut = "err" THEN "BatchError"
                                             ELSE "CancelledError", cb.job)
                                    ELSE @]
               /\ gathered' = [gathered EXCEPT ![r] =
                                  IF gcb /\ job.fut = "ok" THEN @ + 1 ELSE @]
               /\ ready' = [ready EXCEPT ![r] =
                               IF resolved THEN Append(Tail(@), Wake) ELSE Tail(@)]
        /\ UNCHANGED <<pc, steps, argVars, extVars, jobs, registrar, outcome, esVars,
                       es_at_pre, cnt, other_jobs>>

\* batch_finished writing one error cell that every run reads
batch_finished_SharedCell ==
    \E r \in RunIds :
        /\ ready[r] # <<>>
        /\ Head(ready[r]) # Wake
        /\ LET cb == Head(ready[r])
               job == jobs[r][cb.job]
               bf == cb.kind \in {"bf", "both"}
               gcb == /\ cb.kind \in {"gcb", "both"}
                      /\ pc[r] = "gather"
                      /\ gather_exc[r] = NoErr
                      /\ gathered[r] < Len(jobs[r])
               resolved == gcb /\ (job.fut # "ok" \/ gathered[r] + 1 = Len(jobs[r]))
           IN  /\ finished' = [finished EXCEPT ![r] =
                                  IF bf /\ job.fut = "ok" THEN @ + job.count ELSE @]
               /\ error' = [x \in RunIds |->
                               IF bf /\ job.fut = "err"
                               THEN error_after(error[x], Err("BatchError", cb.job))
                               ELSE error[x]]
               /\ first_error' = [first_error EXCEPT ![r] =
                                     IF bf /\ job.fut = "err" /\ @ = NoErr
                                     THEN Err("BatchError", cb.job) ELSE @]
               /\ gather_exc' = [gather_exc EXCEPT ![r] =
                                    IF gcb /\ job.fut # "ok"
                                    THEN Err(IF job.fut = "err" THEN "BatchError"
                                             ELSE "CancelledError", cb.job)
                                    ELSE @]
               /\ gathered' = [gathered EXCEPT ![r] =
                                  IF gcb /\ job.fut = "ok" THEN @ + 1 ELSE @]
               /\ ready' = [ready EXCEPT ![r] =
                               IF resolved THEN Append(Tail(@), Wake) ELSE Tail(@)]
        /\ UNCHANGED <<pc, steps, argVars, extVars, jobs, registrar, outcome, esVars,
                       es_at_pre, cnt, other_jobs>>

\* the event loop runs the next callback of the run's futures:
\* batch_finished adds the count or records the error (a CancelledError is
\* no Exception and passes through); gather's callback sets the first
\* exception on the gather future, or its result once every job has one,
\* and so schedules the next step of do_index
batch_finished ==
    \E r \in RunIds :
        /\ ready[r] # <<>>
        /\ Head(ready[r]) # Wake
        /\ LET cb == Head(ready[r])
               job == jobs[r][cb.job]
               bf == cb.kind \in {"bf", "both"}
               gcb == /\ cb.kind \in {"gcb", "both"}
                      /\ pc[r] = "gather"
                      /\ gather_exc[r] = NoErr
                      /\ gathered[r] < Len(jobs[r])
               resolved == gcb /\ (job.fut # "ok" \/ gathered[r] + 1 = Len(jobs[r]))
           IN  /\ finished' = [finished EXCEPT ![r] =
                                  IF bf /\ job.fut = "ok" THEN @ + job.count ELSE @]
               /\ error' = [error EXCEPT ![r] =
                               IF bf /\ job.fut = "err"
                               THEN error_after(@, Err("BatchError", cb.job)) ELSE @]
               /\ first_error' = [first_error EXCEPT ![r] =
                                     IF bf /\ job.fut = "err" /\ @ = NoErr
                                     THEN Err("BatchError", cb.job) ELSE @]
               /\ gather_exc' = [gather_exc EXCEPT ![r] =
                                    IF gcb /\ job.fut # "ok"
                                    THEN Err(IF job.fut = "err" THEN "BatchError"
                                             ELSE "CancelledError", cb.job)
                                    ELSE @]
               /\ gathered' = [gathered EXCEPT ![r] =
                                  IF gcb /\ job.fut = "ok" THEN @ + 1 ELSE @]
               /\ ready' = [ready EXCEPT ![r] =
                               IF resolved THEN Append(Tail(@), Wake) ELSE Tail(@)]
        /\ UNCHANGED <<pc, steps, argVars, extVars, jobs, registrar, outcome, esVars,
                       es_at_pre, cnt, other_jobs>>

\* asyncio.gather resumes do_index: with the first exception set on it, or
\* with all results; then schedule.completed and `return total`
GatherDone(r) ==
    /\ pc[r] = "gather"
    /\ WakeIsNext(r)
    /\ ready' = [ready EXCEPT ![r] = Tail(@)]
    /\ IF gather_exc[r] # NoErr
       THEN /\ StepFailed(r, registrar[r], "index", gather_exc[r])
            /\ cnt' = cnt
       ELSE IF ScheduleCompleted(finished[r], total[r], ignore_mismatch(mode[r]))
       THEN /\ StepSucceeded(r, registrar[r], "index", total[r], "at_post")
            /\ cnt' = [cnt EXCEPT ![r] = total[r]]
       ELSE /\ StepFailed(r, registrar[r], "index", Err("ScheduleMismatch", 0))
            /\ cnt' = cnt
    /\ UNCHANGED <<steps, argVars, extVars, finished, jobs, error, gather_exc, gathered,
                   first_error, esVars, es_at_pre, other_jobs>>

(* ------------------------- Indexer.post_index ------------------------- *)

\* `if "post" in steps`: status.started() and the hook is entered; without
\* the step index() returns {es_index_name: cnt}
PostStart(r) ==
    /\ pc[r] = "at_post"
    /\ IF ~Requested(r, "post")
       THEN /\ pc' = [pc EXCEPT ![r] = "done"]
            /\ outcome' = [outcome EXCEPT ![r] = Returned(cnt[r])]
            /\ registrar' = registrar
       ELSE /\ pc' = [pc EXCEPT ![r] = "post_run"]
            /\ registrar' = [registrar EXCEPT ![r] = Started(@, "post")]
            /\ outcome' = outcome
    /\ UNCHANGED <<steps, argVars, extVars, jobVars, esVars, es_at_pre, cnt, other_jobs>>

\* post_index (a hook subclasses override) returns or raises
PostFinish(r) ==
    /\ pc[r] = "post_run"
    /\ \E hook_raises \in BOOLEAN :
          IF hook_raises
          THEN StepFailed(r, registrar[r], "post", Err("PostError", 0))
          ELSE /\ registrar' = [registrar EXCEPT ![r] = Succeed(@, "post", 0)]
               /\ outcome' = [outcome EXCEPT ![r] = Returned(cnt[r])]
               /\ pc' = [pc EXCEPT ![r] = "done"]
    /\ UNCHANGED <<steps, argVars, extVars, jobVars, esVars, es_at_pre, cnt, other_jobs>>

(* ---------------------- RepositoryConfig.format ----------------------- *)

\* a string is the sequence of its pieces: plain text, a calendar-field
\* placeholder "$(f)", a dot-path placeholder "%(p)s", a "%" that belongs
\* to no placeholder, a double quote, the escaped double quote of JSON, the
\* six characters \u0025 (the JSON escape of "%") and the same with the
\* backslash escaped
Lit(v) == [t |-> "lit", v |-> v]

CalendarField(f) == [t |-> "cal", v |-> f]

DotPath(p) == [t |-> "path", v |-> p]

Percent == [t |-> "pct", v |-> "%"]

Quote == [t |-> "quote", v |-> "dq"]

EscapedQuote == [t |-> "esc", v |-> "dq"]

PercentEscape == [t |-> "u0025", v |-> "%"]

EscapedPercentEscape == [t |-> "esc_u0025", v |-> "%"]

\* the concatenation of a sequence of strings
RECURSIVE Concat(_)
Concat(ss) == IF ss = <<>> THEN <<>> ELSE Head(ss) \o Concat(Tail(ss))

\* the calendar fields template_out knows, with their value at the time of
\* the call
Calendar == ("Y" :> "2026")

\* template_out, first part: the calendar-field placeholders it knows are
\* replaced, the others stay
render_calendar(field) ==
    Concat([i \in DOMAIN field |->
               IF field[i].t = "cal" /\ field[i].v \in DOMAIN Calendar
               THEN <<Lit(Calendar[field[i].v])>>
               ELSE <<field[i]>>])

\* template_out, second part: each dot-path placeholder is replaced by the
\* value the document has at the path, inserted as it is
render_paths(field, doc) ==
    Concat([i \in DOMAIN field |->
               IF field[i].t = "path" /\ field[i].v \in DOMAIN doc
               THEN doc[field[i].v]
               ELSE <<field[i]>>])

\* a dot-path placeholder names a path the document lacks
missing_path(field, doc) ==
    \E i \in DOMAIN field : field[i].t = "path" /\ field[i].v \notin DOMAIN doc

\* a value a call returned, or the exception it raised
Value(v) == [ok |-> TRUE, val |-> v, err |-> "none"]

Raises(e) == [ok |-> FALSE, val |-> <<>>, err |-> e]

\* template_out(field, confdict)
template_out(field, doc) ==
    IF missing_path(field, doc) THEN Raises("ValueError")
    ELSE Value(render_paths(render_calendar(field), doc))

\* json.dumps of one string leaf: a double quote and a backslash are
\* escaped
dumps_leaf(str) ==
    [i \in DOMAIN str |-> IF str[i].t = "quote" THEN EscapedQuote
                          ELSE IF str[i] = PercentEscape THEN EscapedPercentEscape
                          ELSE str[i]]

\* json.loads of one string leaf: an escaped double quote is a double
\* quote, an escaped backslash a backslash, and \u0025 is "%"
loads_leaf(str) ==
    [i \in DOMAIN str |-> IF str[i].t = "esc" THEN Quote
                          ELSE IF str[i] = EscapedPercentEscape THEN PercentEscape
                          ELSE IF str[i] = PercentEscape THEN Percent
                          ELSE str[i]]

\* json.dumps(self.data): the leaves of the document, in JSON text
dumps(data) == [k \in DOMAIN data |-> dumps_leaf(data[k])]

\* the text between the quotes of a leaf holds a bare double quote
broken_json(text) == \E k \in DOMAIN text : \E i \in DOMAIN text[k] : text[k][i].t = "quote"

\* json.loads(string.data)
loads(text) ==
    IF broken_json(text) THEN Raises("JSONDecodeError")
    ELSE Value([k \in DOMAIN text |-> loads_leaf(text[k])])

\* `"%" in string`
has_percent(text) ==
    \E k \in DOMAIN text : \E i \in DOMAIN text[k] : text[k][i].t \in {"path", "pct"}

\* template_out on the JSON text: it raises when a placeholder in any leaf
\* names a missing path
template_out_text(text, doc) ==
    IF \E k \in DOMAIN text : ~template_out(text[k], doc).ok
    THEN Raises("ValueError")
    ELSE Value([k \in DOMAIN text |-> template_out(text[k], doc).val])

\* RepositoryConfig.format(doc)
format(data, doc) ==
    LET template == dumps(data)
        string == template_out_text(template, doc)
    IN  IF ~string.ok THEN string
        ELSE IF has_percent(string.val) THEN Raises("ValueError")
        ELSE loads(string.val)

\* `doc or {}`: the build document as the mapping from its dot paths to
\* its values; None is the empty mapping
NoDoc == [p \in {} |-> <<>>]

(* --------------------------- specifications --------------------------- *)

\* the calls of SnapshotEnv.snapshot that are followed
SnapIds == {1, 2}

\* a snapshot call: where its coroutine stands, in which step, on which
\* snapshot environment
SnapState(p, k, e) == [pc |-> p, step |-> k, env |-> e]

\* the repository config of the snapshot environment: the string leaves
\* that are templated
RepositoryConfig(name, bucket, base_path) ==
    [name |-> name, bucket |-> bucket, base_path |-> base_path]

\* a config without placeholders
PlainConfig == RepositoryConfig(<<Lit("s3")>>, <<Lit("bucket")>>, <<Lit("ns")>>)

\* SnapshotEnv.__init__, and what _doc finds for the index: found is FALSE
\* when no build is associated with the index
SnapshotEnv(repcfg, found, doc) == [repcfg |-> repcfg, found |-> found, doc |-> doc]

\* the remote services: whether the bucket and the repository exist, the
\* state of the snapshot of the requested name ("MISSING" when there is
\* none), and the calls that asked for a change, in order
Cloud(bucket, repo, snapshot) ==
    [bucket |-> bucket, repo |-> repo, snapshot |-> snapshot, log |-> <<>>]

\* a step function in its thread: where it stands, its local _replace, the
\* state it last read in the poll loop, how often it has slept, and the
\* exception it raised
ThreadState(p) ==
    [pc |-> p, replace |-> FALSE, observed |-> "none", polls |-> 0, err |-> "none"]

\* CumulativeResult(): the keys merged into x so far; replaced is "none"
\* until the snapshot step's result is merged
CumulativeResult(conf, replaced) == [conf |-> conf, replaced |-> replaced]

\* no format call is followed
NoFormat == [pc |-> "idle", data |-> PlainConfig, doc |-> NoDoc,
             first |-> Raises("none"), second |-> Raises("none")]

\* a snapshot environment with a plain config on services that are set up,
\* and no format call
PlainSnapshotEnv ==
    /\ senv = SnapshotEnv(PlainConfig, TRUE, NoDoc)
    /\ cloud = Cloud(TRUE, TRUE, "MISSING")
    /\ fmt = NoFormat

\* the value ColdHotIndexer.index holds in cnt: 0, or the dict an
\* Indexer.index call returned ({index name: count})
Count(is_dict, n) == [dict |-> is_dict, count |-> n]

\* a ColdHotIndexer.index call; hot_post tells whether hot.post_index was
\* called ("created": the coroutine object exists) and run ("completed")
ColdHotState(p, st, bs, md) ==
    [pc |-> p, steps |-> st, batch_size |-> bs, mode |-> md,
     cnt |-> Count(FALSE, 0), outcome |-> Pending, hot_post |-> "none"]

\* source sizes that make 0 .. n batches of the smallest batch size
Totals(n) == {0} \cup {k * MinBatchSize - 20 : k \in 1..n}

\* the key None of a dict, and an argument that is None
NonePath == "None"

\* the mapping of `indexer_select`, from a path (or None) to a class; the
\* empty mapping also stands for a config without the key
NoRules == [k \in {} |-> ""]

\* a config dict: its "indexer_select" and the names under "env"
\* (has_env is FALSE for a dict without "env"; is_dict is FALSE for a
\* value that is no dict)
Conf(rules, envs) == [is_dict |-> TRUE, has_env |-> TRUE, rules |-> rules, envs |-> envs]

\* what a call of the manager did: the operation and its arguments, the
\* class it selected or the exception it raised, and whether it created
\* an indexer
CallRecord(op, target, result, created) ==
    [op |-> op, target |-> target, result |-> result, created |-> created]

Class(kls) == [kind |-> "class", class |-> kls, err |-> "none"]

RaiseOf(err) == [kind |-> "raise", class |-> "none", err |-> err]

\* IndexManager.__init__: _config = {}, nothing registered
NewManager ==
    [config |-> Conf(NoRules, {}), register |-> {}, indexers |-> 0,
     last |-> CallRecord("none", NonePath, Class("none"), FALSE)]

\* a key a dict does not have
Absent == "absent"

\* the "args" dict of an indexing environment: its hosts and timeout
ArgsDict(hosts, timeout) == [hosts |-> hosts, timeout |-> timeout]

\* the dict registered for an indexing environment; args is the place of
\* its "args" dict on the heap
EnvDict(ref, c, name) == [args |-> ref, concurrency |-> c, name |-> name]

\* BaseManager.__init__: an empty register; no "args" dict yet
NewRegistry == [envs |-> [n \in {} |-> EnvDict(0, 0, "")], heap |-> <<>>]

\* what SnapshotManager.register holds for a snapshot environment: the
\* merged "indexer" dict, by its name and the place of its "args" dict
SnapEnvEntry(idxenv, ref) == [idxenv |-> idxenv, args |-> ref]

\* a build record given to snapshot_build: its _id, the environment of its
\* autobuild config (NonePath when there is none), and the keys of its
\* "index" mapping in their order
BuildDoc(id, env, index) == [id |-> id, env |-> env, index |-> index]

\* the snapshot_build coroutine: its position, its argument, the index it
\* asked a snapshot of, and what the holder of its future observed
BuildState(p, doc) == [pc |-> p, doc |-> doc, latest_index |-> NonePath, outcome |-> Pending]

\* SnapshotManager.__init__
NewSnapshotManager ==
    [register |-> [n \in {} |-> SnapEnvEntry("", 0)],
     last |-> "none",
     build |-> BuildState("idle", BuildDoc("", NonePath, <<>>))]

\* no IndexManager call is followed
NoManager == manager = NewManager /\ registry = NewRegistry /\ snapmgr = NewSnapshotManager

\* no ColdHotIndexer is called
NoColdHot == coldhot = ColdHotState("idle", StepsList(<<>>), MinBatchSize, "index")

RunState0 ==
    /\ registrar = [r \in RunIds |-> <<>>]
    /\ outcome = [r \in RunIds |-> Pending]
    /\ finished = [r \in RunIds |-> 0]
    /\ jobs = [r \in RunIds |-> <<>>]
    /\ error = [r \in RunIds |-> NoErr]
    /\ gather_exc = [r \in RunIds |-> NoErr]
    /\ gathered = [r \in RunIds |-> 0]
    /\ ready = [r \in RunIds |-> <<>>]
    /\ first_error = [r \in RunIds |-> NoErr]
    /\ es_at_pre = [r \in RunIds |-> 0]
    /\ es_created = es_index
    /\ es_log = <<>>
    /\ cnt = [r \in RunIds |-> 0]
    /\ other_jobs = {}
    /\ snap = [s \in SnapIds |-> SnapState("idle", 1, "env_a")]
    /\ cfg = [s \in SnapIds |-> PlainConfig]
    /\ thread = [s \in SnapIds |-> ThreadState("none")]
    /\ snap_x = [s \in SnapIds |-> CumulativeResult(FALSE, "none")]
    /\ snap_registrar = [s \in SnapIds |-> <<>>]
    /\ snap_outcome = [s \in SnapIds |-> Pending]

\* no Indexer run: the run ids stay idle
IdleRuns ==
    /\ pc = [r \in RunIds |-> "idle"]
    /\ steps = [r \in RunIds |-> StepsList(<<>>)]
    /\ batch_size = [r \in RunIds |-> MinBatchSize]
    /\ mode = [r \in RunIds |-> "index"]
    /\ total = [r \in RunIds |-> 0]
    /\ source_ids = total
    /\ ids = [r \in RunIds |-> NoIds]
    /\ env_name = [r \in RunIds |-> "env_a"]
    /\ es_index_name = [r \in RunIds |-> "index_a"]
    /\ concurrency = [e \in Envs |-> 1]
    /\ es_index = [n \in BuildIndexNames |-> 0]
    /\ RunState0

\* one Indexer on one environment, called with any arguments; the other
\* run id stays idle
Init ==
    /\ pc = [r \in RunIds |-> IF r \in SingleRun THEN "call" ELSE "idle"]
    /\ \E s \in StepsArgs : steps = [r \in RunIds |-> s]
    /\ \E b \in BatchSizeArgs : batch_size = [r \in RunIds |-> b]
    /\ \E m \in ModeArgs : mode = [r \in RunIds |-> m]
    /\ \E t \in Totals(MaxBatches) : total = [r \in RunIds |-> t]
    /\ source_ids = total
    /\ ids = [r \in RunIds |-> NoIds]
    /\ env_name = [r \in RunIds |-> "env_a"]
    /\ es_index_name = [r \in RunIds |-> "index_a"]
    /\ \E c \in {1, MaxConcurrency} : concurrency = [e \in Envs |-> c]
    /\ \E x \in {0, 1} : es_index = [n \in IndexNames |-> IF n = "index_a" THEN x ELSE 0]
    /\ RunState0
    /\ NoColdHot
    /\ NoManager
    /\ PlainSnapshotEnv

RunNext(r) ==
    \/ Call(r)
    \/ PreStart(r)
    \/ PreExistsReturn(r)
    \/ PreDeleteReturn(r)
    \/ PreCreateReturn(r)
    \/ IndexStart(r)
    \/ LoopResume(r)
    \/ LaunchJob(r)
    \/ \E j \in DOMAIN jobs[r] : JobSucceed(r, j)
    \/ \E j \in DOMAIN jobs[r] : JobFail(r, j)
    \/ \E j \in DOMAIN jobs[r] : WorkerExit(r, j)
    \/ GatherDone(r)
    \/ PostStart(r)
    \/ PostFinish(r)

Next ==
    \/ \E r \in SingleRun : RunNext(r)
    \/ batch_finished

Spec == Init /\ [][Next]_vars

(* ------------ two runs that share the job manager (SpecConc) ---------- *)

SNAPSHOOTER_CATEGORY == "snapshooter"

\* a job of another category whose pinfo names the environment e as source
OtherJob(e) == [category |-> SNAPSHOOTER_CATEGORY, source |-> e, id |-> <<0, 0>>]

\* the scheduler launches a job that carries no indexer predicate
OtherJobStart(e) ==
    /\ OtherJob(e) \notin other_jobs
    /\ other_jobs' = other_jobs \cup {OtherJob(e)}
    /\ UNCHANGED <<pc, steps, argVars, extVars, jobVars, registrar, outcome, esVars,
                   es_at_pre, cnt>>

OtherJobEnd(e) ==
    /\ OtherJob(e) \in other_jobs
    /\ other_jobs' = other_jobs \ {OtherJob(e)}
    /\ UNCHANGED <<pc, steps, argVars, extVars, jobVars, registrar, outcome, esVars,
                   es_at_pre, cnt>>

\* two Indexers, each asked for the index step alone, on the same or on
\* different environments; the first has several batches to dispatch
InitConc ==
    /\ pc = [r \in RunIds |-> "call"]
    /\ steps = [r \in RunIds |-> StepsStr("index")]
    /\ batch_size = [r \in RunIds |-> MinBatchSize]
    /\ mode = [r \in RunIds |-> "index"]
    /\ total = [r \in RunIds |->
                    IF r = 1 THEN MaxConcBatches * MinBatchSize ELSE MinBatchSize]
    /\ source_ids = total
    /\ ids = [r \in RunIds |-> NoIds]
    /\ \E e \in Envs : env_name = [r \in RunIds |-> IF r = 1 THEN "env_a" ELSE e]
    /\ es_index_name = [r \in RunIds |-> IF r = 1 THEN "index_a" ELSE "index_b"]
    /\ \E c \in {1, MaxConcurrency} :
          concurrency = [e \in Envs |-> IF e = "env_a" THEN c ELSE 1]
    /\ es_index = [n \in IndexNames |-> 1]
    /\ RunState0
    /\ NoColdHot
    /\ NoManager
    /\ PlainSnapshotEnv

ConcRunNext(r) ==
    \/ Call(r)
    \/ PreStart(r)
    \/ IndexStart(r)
    \/ LoopResume(r)
    \/ LaunchJob(r)
    \/ \E j \in DOMAIN jobs[r] : JobSucceed(r, j)
    \/ \E j \in DOMAIN jobs[r] : JobFail(r, j)
    \/ \E j \in DOMAIN jobs[r] : WorkerExit(r, j)
    \/ GatherDone(r)
    \/ PostStart(r)

NextConc ==
    \/ \E r \in RunIds : ConcRunNext(r)
    \/ batch_finished
    \/ OtherJobStart("env_a")
    \/ OtherJobEnd("env_a")

SpecConc == InitConc /\ [][NextConc]_vars

(* ------ one index step over a collection that may change (SpecFeed) --- *)

\* source sizes up to n full batches of the smallest batch size
FeedTotals(n) == Totals(n) \cup {k * MinBatchSize : k \in 1..n}

\* an index step alone; the ids come from the given list (as many as were
\* counted) or from the collection, which may have gained or lost documents
\* between collection.count() and the id feeder's read
InitFeed ==
    /\ pc = [r \in RunIds |-> IF r \in SingleRun THEN "call" ELSE "idle"]
    /\ steps = [r \in RunIds |-> StepsList(<<"index">>)]
    /\ \E b \in {MinBatchSize, MinBatchSize + 20} : batch_size = [r \in RunIds |-> b]
    /\ \E m \in {"index", "resume"} : mode = [r \in RunIds |-> m]
    /\ \E t \in FeedTotals(MaxBatches) :
          /\ total = [r \in RunIds |-> t]
          /\ \E n \in {t, t + 10, t - 10} \cap Nat : source_ids = [r \in RunIds |-> n]
    /\ ids = [r \in RunIds |-> NoIds]
    /\ env_name = [r \in RunIds |-> "env_a"]
    /\ es_index_name = [r \in RunIds |-> "index_a"]
    /\ concurrency = [e \in Envs |-> MaxConcurrency]
    /\ es_index = [n \in IndexNames |-> 1]
    /\ RunState0
    /\ NoColdHot
    /\ NoManager
    /\ PlainSnapshotEnv

NextFeed ==
    \/ \E r \in SingleRun : ConcRunNext(r)
    \/ batch_finished

SpecFeed == InitFeed /\ [][NextFeed]_vars

(* ------------------ ColdHotIndexer.index (SpecColdHot) ---------------- *)

\* the two Indexers of the composite
Cold == 1

Hot == 2

\* the steps and the mode the cold Indexer is called with
cold_steps == StepsList(<<"pre", "index">>)

\* the steps the hot Indexer is called with
hot_steps == StepsStr("index")

\* hot_mode passing the caller's mode on
hot_mode_Callers(md) == md

\* the mode the hot Indexer is called with, given the caller's
hot_mode(md) == "merge"

ColdHotRest ==
    UNCHANGED <<env_name, es_index_name, concurrency, total, source_ids, ids, snap, manager,
                snapVars, regVars,
                registrar, outcome, jobVars, esVars, es_at_pre, cnt, other_jobs>>

\* Indexer.index(job_manager, st, bs, ids, md) is called on Indexer r
StartIndexer(r, st, bs, md) ==
    /\ pc' = [pc EXCEPT ![r] = "call"]
    /\ steps' = [steps EXCEPT ![r] = st]
    /\ batch_size' = [batch_size EXCEPT ![r] = bs]
    /\ mode' = [mode EXCEPT ![r] = md]

\* index() is entered: a str is wrapped in a list; with "index" among the
\* steps the cold Indexer's index() is awaited
ColdHotCall ==
    /\ coldhot.pc = "call"
    /\ LET st == IF coldhot.steps.kind = "str"
                 THEN StepsList(coldhot.steps.val) ELSE coldhot.steps
       IN  IF "index" \in Range(st.val)
           THEN /\ coldhot' = [coldhot EXCEPT !.steps = st, !.pc = "cold"]
                /\ StartIndexer(Cold, cold_steps, coldhot.batch_size, coldhot.mode)
           ELSE /\ coldhot' = [coldhot EXCEPT !.steps = st, !.pc = "at_post"]
                /\ UNCHANGED <<pc, steps, batch_size, mode>>
    /\ ColdHotRest

\* cold_task ends: its exception ends index(), its result is kept in cnt
\* and the hot Indexer's index() is awaited
ColdDone ==
    /\ coldhot.pc = "cold"
    /\ pc[Cold] = "done"
    /\ IF outcome[Cold].state = "raised"
       THEN /\ coldhot' = [coldhot EXCEPT !.pc = "done", !.outcome = outcome[Cold]]
            /\ UNCHANGED <<pc, steps, batch_size, mode>>
       ELSE /\ coldhot' = [coldhot EXCEPT !.pc = "hot",
                                          !.cnt = Count(TRUE, outcome[Cold].cnt)]
            /\ StartIndexer(Hot, hot_steps, coldhot.batch_size, hot_mode(coldhot.mode))
    /\ ColdHotRest

\* hot_task ends
HotDone ==
    /\ coldhot.pc = "hot"
    /\ pc[Hot] = "done"
    /\ coldhot' =
          IF outcome[Hot].state = "raised"
          THEN [coldhot EXCEPT !.pc = "done", !.outcome = outcome[Hot]]
          ELSE [coldhot EXCEPT !.pc = "at_post", !.cnt = Count(TRUE, outcome[Hot].cnt)]
    /\ UNCHANGED <<pc, steps, batch_size, mode>>
    /\ ColdHotRest

\* `if "post" in steps: self.hot.post_index()`: the call of the coroutine
\* function creates a coroutine object, which is dropped without being
\* awaited or scheduled; then index() returns {index_name: cnt}
ColdHotPost ==
    /\ coldhot.pc = "at_post"
    /\ coldhot' = [coldhot EXCEPT
                      !.pc = "done",
                      !.outcome = [state |-> "returned", err |-> NoErr, cnt |-> coldhot.cnt],
                      !.hot_post = IF "post" \in Range(coldhot.steps.val)
                                   THEN "created" ELSE @]
    /\ UNCHANGED <<pc, steps, batch_size, mode>>
    /\ ColdHotRest

\* the steps arguments given to the composite: its default, single steps
\* as list and as str, and lists without "index"
ColdHotStepsArgs ==
    {StepsList(seq) : seq \in {<<"index", "post">>, <<"index">>, <<"post">>,
                               <<"pre">>, <<"post", "index">>, <<>>}}
        \cup {StepsStr("index"), StepsStr("post")}

\* a ColdHotIndexer whose Indexers share the environment and the
\* destination, called with any arguments; both collections hold ids
InitColdHot ==
    /\ pc = [r \in RunIds |-> "idle"]
    /\ steps = [r \in RunIds |-> StepsList(<<>>)]
    /\ batch_size = [r \in RunIds |-> MinBatchSize]
    /\ mode = [r \in RunIds |-> "index"]
    /\ \E t \in Totals(MaxBatches) \ {0} :
          total = [r \in RunIds |-> IF r = Cold THEN t ELSE MinBatchSize - 20]
    /\ source_ids = total
    /\ ids = [r \in RunIds |-> NoIds]
    /\ env_name = [r \in RunIds |-> "env_a"]
    /\ es_index_name = [r \in RunIds |-> "index_a"]
    /\ concurrency = [e \in Envs |-> MaxConcurrency]
    /\ \E x \in {0, 1} : es_index = [n \in IndexNames |-> IF n = "index_a" THEN x ELSE 0]
    /\ RunState0
    /\ \E st \in ColdHotStepsArgs, bs \in {MinBatchSize - 1, MinBatchSize}, md \in ModeArgs :
          coldhot = ColdHotState("call", st, bs, md)
    /\ NoManager
    /\ PlainSnapshotEnv

ColdHotRunNext(r) ==
    \/ Call(r)
    \/ PreStart(r)
    \/ PreExistsReturn(r)
    \/ PreDeleteReturn(r)
    \/ PreCreateReturn(r)
    \/ IndexStart(r)
    \/ LoopResume(r)
    \/ LaunchJob(r)
    \/ \E j \in DOMAIN jobs[r] : JobSucceed(r, j)
    \/ \E j \in DOMAIN jobs[r] : JobFail(r, j)
    \/ \E j \in DOMAIN jobs[r] : WorkerExit(r, j)
    \/ GatherDone(r)
    \/ PostStart(r)

NextColdHot ==
    \/ ColdHotCall
    \/ ColdDone
    \/ HotDone
    \/ ColdHotPost
    \/ \E r \in RunIds : ColdHotRunNext(r)
    \/ batch_finished

SpecColdHot == InitColdHot /\ [][NextColdHot]_vars

(* --------------------- IndexManager (SpecManager) --------------------- *)

DEFAULT_INDEXER == "Indexer"

ColdPath == "build_config.cold_collection"

NamePath == "build_config.name"

MetaPath == "_meta.build_version"

\* the build store: for each build its leaf paths in the order traverse
\* walks them, and whether it has a build configuration
Build(has_config, paths) == [build_config |-> has_config, paths |-> paths]

Builds ==
    ("build_plain" :> Build(TRUE, <<MetaPath, NamePath>>))
        @@ ("build_cold" :> Build(TRUE, <<MetaPath, ColdPath, NamePath>>))
        @@ ("build_nocfg" :> Build(FALSE, <<MetaPath>>))

\* names asked for: the builds of the store and one that is not in it
Targets == DOMAIN Builds \cup {"build_gone"}

\* the routing rules that are configured
RuleSets ==
    {NoRules,
     (NonePath :> "DrugIndexer"),
     (NonePath :> "DrugIndexer") @@ (ColdPath :> "ColdHotIndexer"),
     (ColdPath :> "ColdHotIndexer"),
     (ColdPath :> "ColdHotIndexer") @@ (NamePath :> "NamedIndexer")}

\* the values given to configure
ConfArgs ==
    {Conf(rules, envs) : rules \in RuleSets, envs \in (SUBSET Envs) \ {{}}}
        \cup {[Conf(NoRules, {}) EXCEPT !.has_env = FALSE],
              [Conf(NoRules, {}) EXCEPT !.is_dict = FALSE]}

\* find_one({"_id": target_name}) or {}, walked by traverse(doc, True)
traverse(target) == IF target \in DOMAIN Builds THEN Builds[target].paths ELSE <<>>

\* walk that keeps the first match and ignores later ones
RECURSIVE walk_FirstWins(_, _, _)
walk_FirstWins(rules, paths, path) ==
    IF paths = <<>> THEN [raise |-> FALSE, path |-> path]
    ELSE IF Head(paths) \in DOMAIN rules /\ path = NonePath
    THEN walk_FirstWins(rules, Tail(paths), Head(paths))
    ELSE walk_FirstWins(rules, Tail(paths), path)

\* the for loop of _select_indexer over the walked paths: the first path
\* that is a key of the rules is kept, a second one raises
RECURSIVE walk(_, _, _)
walk(rules, paths, path) ==
    IF paths = <<>> THEN [raise |-> FALSE, path |-> path]
    ELSE IF Head(paths) \in DOMAIN rules
    THEN IF path = NonePath
         THEN walk(rules, Tail(paths), Head(paths))
         ELSE [raise |-> TRUE, path |-> path]
    ELSE walk(rules, Tail(paths), path)

\* IndexManager._select_indexer(target_name)
select_indexer(rules, target) ==
    IF rules = NoRules \/ target = NonePath
    THEN Class(DEFAULT_INDEXER)
    ELSE LET found == walk(rules, traverse(target), NonePath)
         IN  IF found.raise THEN RaiseOf("RuntimeError")
             ELSE IF found.path \in DOMAIN rules THEN Class(rules[found.path])
             ELSE RaiseOf("KeyError")

\* the names registered after the loop of configure over conf["env"]
register_after(register, conf) == register \cup conf.envs

\* the order in which conf["env"].items() yields the environments
EnvOrder == <<"env_a", "env_b">>

\* the timeout the "args" of a configured environment carry
ConfTimeout == "300"

\* the loop of configure, on the registered dicts: each environment of the
\* config gets the "indexer" dict of the config, with "args" (hosts set
\* from "host") and "name"
registry_after(reg, conf) ==
    LET names == SelectSeq(EnvOrder, LAMBDA n : n \in conf.envs)
        place(n) == Len(reg.heap) + (CHOOSE i \in DOMAIN names : names[i] = n)
    IN  [envs |-> [n \in DOMAIN reg.envs \cup conf.envs |->
                      IF n \in conf.envs THEN EnvDict(place(n), concurrency[n], n)
                      ELSE reg.envs[n]],
         heap |-> reg.heap \o [i \in DOMAIN names |-> ArgsDict(names[i], ConfTimeout)]]

ManagerOnly ==
    UNCHANGED <<pc, steps, argVars, source_ids, ids, snap, snapVars, snapmgr, coldhot, jobVars,
                registrar, outcome, esVars, es_at_pre, cnt, other_jobs>>

\* IndexManager.configure(conf)
configure(conf) ==
    /\ conf.is_dict /\ conf.has_env
          => Len(registry.heap) + Cardinality(conf.envs) <= MaxDicts
    /\ registry' = IF conf.is_dict /\ conf.has_env
                   THEN registry_after(registry, conf) ELSE registry
    /\ manager' =
          IF ~conf.is_dict
          THEN [manager EXCEPT
                   !.last = CallRecord("configure", NonePath, RaiseOf("TypeError"), FALSE)]
          ELSE IF ~conf.has_env
          THEN [manager EXCEPT
                   !.config = conf,
                   !.last = CallRecord("configure", NonePath, RaiseOf("KeyError"), FALSE)]
          ELSE [manager EXCEPT
                   !.config = conf,
                   !.register = register_after(@, conf),
                   !.last = CallRecord("configure", NonePath, Class("none"), FALSE)]
    /\ ManagerOnly

\* _select_indexer is called by itself, as validate_mapping does (without
\* a target)
SelectIndexerCall(target) ==
    /\ manager' = [manager EXCEPT
                      !.last = CallRecord("select", target,
                                          select_indexer(manager.config.rules, target),
                                          FALSE)]
    /\ registry' = registry
    /\ ManagerOnly

\* what IndexManager.index raises before it creates an indexer, or the
\* class it is going to instantiate
index_verdict(env, target) ==
    IF env \notin manager.register THEN RaiseOf("UnknownEnv")
    ELSE IF target \notin DOMAIN Builds THEN RaiseOf("ValueError")
    ELSE IF ~Builds[target].build_config THEN RaiseOf("ValueError")
    ELSE select_indexer(manager.config.rules, target)

\* the **kwargs of IndexManager.index: a steps argument, or none
Kwargs(st) == [given |-> TRUE, steps |-> st]

NoKwargs == [given |-> FALSE, steps |-> StepsList(<<>>)]

\* the default of the steps parameter of the index() of the class
DefaultSteps(kls) ==
    IF kls = "ColdHotIndexer" THEN StepsList(<<"index", "post">>)
    ELSE StepsList(<<"pre", "index", "post">>)

\* IndexManager.index(indexer_env, target_name, index_name, **kwargs): the
\* indexer is created on a copy of the registered dict, named index_name or
\* else target_name, and its index() coroutine is scheduled as a task
manager_index(env, target, index_name, kwargs) ==
    LET verdict == index_verdict(env, target)
        st == IF kwargs.given THEN kwargs.steps ELSE DefaultSteps(verdict.class)
    IN  IF verdict.kind = "raise"
        THEN /\ manager' = [manager EXCEPT
                               !.last = CallRecord("index", target, verdict, FALSE)]
             /\ UNCHANGED <<pc, steps, batch_size, mode, env_name, es_index_name, coldhot>>
        ELSE /\ manager' = [manager EXCEPT
                               !.last = CallRecord("index", target, verdict, TRUE),
                               !.indexers = @ + 1]
             /\ env_name' = [r \in RunIds |-> env]
             /\ es_index_name' = [r \in RunIds |->
                                     IF index_name = NonePath THEN target ELSE index_name]
             /\ IF verdict.class = "ColdHotIndexer"
                THEN /\ coldhot' = ColdHotState("call", st, MaxBatchSize, "index")
                     /\ UNCHANGED <<pc, steps, batch_size, mode>>
                ELSE /\ StartIndexer(1, st, MaxBatchSize, "index")
                     /\ coldhot' = coldhot

\* IndexManager.index(env, target, steps=st) is called; one indexer is
\* followed
ManagerIndex(env, target, st) ==
    /\ manager.indexers = 0
    /\ manager_index(env, target, NonePath, Kwargs(st))
    /\ UNCHANGED <<concurrency, total, source_ids, ids, snap, snapVars, regVars,
                   jobVars,
                   registrar, outcome, esVars, es_at_pre, cnt, other_jobs>>

InitManager == IdleRuns /\ NoColdHot /\ NoManager /\ PlainSnapshotEnv

NextManager ==
    \/ \E conf \in ConfArgs : configure(conf)
    \/ \E target \in Targets \cup {NonePath} : SelectIndexerCall(target)
    \/ \E env \in Envs, target \in Targets : ManagerIndex(env, target, StepsStr("pre"))
    \/ \E r \in SingleRun :
          \/ Call(r)
          \/ PreStart(r)
          \/ PreExistsReturn(r)
          \/ PreCreateReturn(r)
          \/ IndexStart(r)
          \/ PostStart(r)
    \/ ColdHotCall
    \/ ColdHotPost

SpecManager == InitManager /\ [][NextManager]_vars

(* ------------- manager-level steps and snapshot steps ----------------- *)

SnapSteps == <<"pre", "snapshot", "post">>

\* snapshooter.ProcessInfo.get_predicates returns the empty list
SnapshooterPredicates == {}

\* IndexManager.get_predicates returns this one predicate
IndexManagerPredicates == {"no_other_indexmanager_step_running"}

\* IndexManager.get_predicates: no_other_indexmanager_step_running
no_other_indexmanager_step_running(jm_jobs) ==
    Cardinality({j \in jm_jobs : j.category = INDEXMANAGER_CATEGORY}) = 0

\* the scheduler launches a job only when every predicate of its pinfo holds
PredicatesHold(preds, jm_jobs) ==
    \A p \in preds :
        p = "no_other_indexmanager_step_running"
            => no_other_indexmanager_step_running(jm_jobs)

\* snapshooter.ProcessInfo.get_pinfo, as the job manager lists it
SnapshotJob(s) ==
    [category |-> SNAPSHOOTER_CATEGORY, source |-> snap[s].env, id |-> <<s, snap[s].step>>]

\* IndexManager.get_pinfo, as the job manager lists it
ManagerJob(m) == [category |-> INDEXMANAGER_CATEGORY, source |-> "", id |-> <<m, 0>>]

ManagerStepIds == {1, 2}

\* what the snapshot steps leave alone
OnlyOtherJobs ==
    UNCHANGED <<pc, steps, argVars, source_ids, ids, coldhot, manager, regVars, jobVars,
                registrar, outcome, esVars, es_at_pre, cnt>>

\* the coroutine of SnapshotEnv.snapshot up to its first suspension: _doc
\* and format raise before the loop, otherwise `started` is recorded for
\* the pre step and the job manager is asked for a thread
snapshot_begin(s, e) ==
    LET formatted == format(senv.repcfg, senv.doc)
        verdict == IF ~senv.found THEN Raises("ValueError") ELSE formatted
    IN  IF ~verdict.ok
        THEN /\ snap' = [snap EXCEPT ![s] = SnapState("failed", 1, e)]
             /\ snap_outcome' = [snap_outcome EXCEPT ![s] = Raised(Err(verdict.err, 0))]
             /\ UNCHANGED <<cfg, snap_registrar>>
        ELSE /\ snap' = [snap EXCEPT ![s] = SnapState("defer", 1, e)]
             /\ cfg' = [cfg EXCEPT ![s] = verdict.val]
             /\ snap_registrar' = [snap_registrar EXCEPT ![s] = Started(@, SnapSteps[1])]
             /\ snap_outcome' = snap_outcome

\* SnapshotEnv.snapshot is called
SnapshotCall(s, e) ==
    /\ snap[s].pc = "idle"
    /\ snapshot_begin(s, e)
    /\ UNCHANGED <<other_jobs, senv, cloud, thread, snap_x, fmt>>
    /\ OnlyOtherJobs

\* what the step's function is called with:
\* partial(getattr(self, state.func), cfg, index, snapshot)
StepArguments == {"cfg", "index", "snapshot"}

\* state.func: where the step's function starts
StepEntry(k) ==
    IF SnapSteps[k] = "pre" THEN "pre_repo_exists"
    ELSE IF SnapSteps[k] = "snapshot" THEN "snap_exists"
    ELSE "post"

\* defer_to_thread returns: the step's function runs in a thread
SnapshotStepLaunch(s) ==
    /\ snap[s].pc = "defer"
    /\ PredicatesHold(SnapshooterPredicates, JobManagerJobs)
    /\ other_jobs' = other_jobs \cup {SnapshotJob(s)}
    /\ snap' = [snap EXCEPT ![s].pc = "join"]
    /\ thread' = [thread EXCEPT ![s] = ThreadState(StepEntry(snap[s].step))]
    /\ UNCHANGED <<senv, cloud, cfg, snap_x, snap_registrar, snap_outcome, fmt>>
    /\ OnlyOtherJobs

\* what a step function leaves alone
ThreadOnly ==
    /\ UNCHANGED <<snap, other_jobs, senv, cfg, snap_x, snap_registrar, snap_outcome, fmt>>
    /\ OnlyOtherJobs

ThreadAt(s, p) == snap[s].pc = "join" /\ thread[s].pc = p

ThreadRaise(s, e) == thread' = [thread EXCEPT ![s].pc = "raised", ![s].err = e]

ThreadGoto(s, p) == thread' = [thread EXCEPT ![s].pc = p]

\* a call that asks the remote services for a change, and whether they
\* carried it out
CloudCall(op, what, s, ok) == [op |-> op, what |-> what, call |-> s, ok |-> ok]

\* pre_snapshot: `if not repo.exists()`, else the return
PreRepoExists(s) ==
    /\ ThreadAt(s, "pre_repo_exists")
    /\ ThreadGoto(s, IF cloud.repo THEN "returned" ELSE "pre_bucket_exists")
    /\ cloud' = cloud
    /\ ThreadOnly

\* pre_snapshot: `if not bucket.exists()`
PreBucketExists(s) ==
    /\ ThreadAt(s, "pre_bucket_exists")
    /\ ThreadGoto(s, IF cloud.bucket THEN "pre_repo_create" ELSE "pre_bucket_create")
    /\ cloud' = cloud
    /\ ThreadOnly

\* the attributes Bucket.__init__ sets
BucketAttributes == {"client", "bucket"}

\* Bucket.create builds the arguments of create_bucket, reading self.region
bucket_create_verdict ==
    IF "region" \in BucketAttributes THEN Value("created") ELSE Raises("AttributeError")

\* pre_snapshot: bucket.create(cfg.get("acl"))
PreBucketCreate(s) ==
    /\ ThreadAt(s, "pre_bucket_create")
    /\ IF bucket_create_verdict.ok
       THEN /\ cloud' = [cloud EXCEPT !.bucket = TRUE,
                                      !.log = Append(@, CloudCall("create", "bucket", s, TRUE))]
            /\ ThreadGoto(s, "pre_repo_create")
       ELSE /\ cloud' = cloud
            /\ ThreadRaise(s, bucket_create_verdict.err)
    /\ ThreadOnly

\* pre_snapshot: repo.create(**cfg), then the return; the search engine
\* verifies that it reaches the bucket
PreRepoCreate(s) ==
    /\ ThreadAt(s, "pre_repo_create")
    /\ IF cloud.bucket
       THEN /\ cloud' = [cloud EXCEPT
                            !.repo = TRUE,
                            !.log = Append(@, CloudCall("create", "repository", s, TRUE))]
            /\ ThreadGoto(s, "returned")
       ELSE /\ cloud' = [cloud EXCEPT
                            !.log = Append(@, CloudCall("create", "repository", s, FALSE))]
            /\ ThreadRaise(s, "RepositoryVerificationError")
    /\ ThreadOnly

\* Snapshot.exists that finds no snapshot
snapshot_exists_Never == FALSE

\* the snapshot of the name is in the repository
snapshot_present == cloud.repo /\ cloud.snapshot # "MISSING"

\* Snapshot.exists
snapshot_exists == cloud.repo /\ cloud.snapshot # "MISSING"

\* Snapshot.state
snapshot_state == IF cloud.repo THEN cloud.snapshot ELSE "N/A"

\* _snapshot: `if snapshot.exists()`
SnapExists(s) ==
    /\ ThreadAt(s, "snap_exists")
    /\ ThreadGoto(s, IF snapshot_exists THEN "snap_delete" ELSE "snap_create")
    /\ cloud' = cloud
    /\ ThreadOnly

\* _snapshot: snapshot.delete(), _replace = True
SnapDelete(s) ==
    /\ ThreadAt(s, "snap_delete")
    /\ IF snapshot_present
       THEN /\ cloud' = [cloud EXCEPT
                            !.snapshot = "MISSING",
                            !.log = Append(@, CloudCall("delete", "snapshot", s, TRUE))]
            /\ thread' = [thread EXCEPT ![s].pc = "snap_create", ![s].replace = TRUE]
       ELSE /\ cloud' = [cloud EXCEPT
                            !.log = Append(@, CloudCall("delete", "snapshot", s, FALSE))]
            /\ ThreadRaise(s, "NotFoundError")
    /\ ThreadOnly

\* _snapshot: snapshot.create(index); the search engine starts the
\* snapshot and answers, and refuses a name that is taken
SnapCreate(s) ==
    /\ ThreadAt(s, "snap_create")
    /\ IF snapshot_state = "MISSING"
       THEN /\ cloud' = [cloud EXCEPT
                            !.snapshot = "IN_PROGRESS",
                            !.log = Append(@, CloudCall("create", "snapshot", s, TRUE))]
            /\ ThreadGoto(s, "poll")
       ELSE /\ cloud' = [cloud EXCEPT
                            !.log = Append(@, CloudCall("create", "snapshot", s, FALSE))]
            /\ ThreadRaise(s, IF cloud.repo THEN "RequestError" ELSE "NotFoundError")
    /\ ThreadOnly

\* the poll loop that also takes PARTIAL for a finished snapshot
poll_verdict_PartialBreaks(state, polls) ==
    IF state = "FAILED" THEN "raise"
    ELSE IF state = "IN_PROGRESS" THEN "sleep"
    ELSE IF state \in {"SUCCESS", "PARTIAL"} THEN "break"
    ELSE "raise"

\* the poll loop that gives up once it has slept
poll_verdict_GivesUp(state, polls) ==
    IF state = "FAILED" THEN "raise"
    ELSE IF state = "IN_PROGRESS" THEN (IF polls >= 1 THEN "raise" ELSE "sleep")
    ELSE IF state = "SUCCESS" THEN "break"
    ELSE "raise"

\* the poll loop that sleeps on every state but SUCCESS and FAILED
poll_verdict_WaitsForSuccess(state, polls) ==
    IF state = "FAILED" THEN "raise"
    ELSE IF state = "SUCCESS" THEN "break"
    ELSE "sleep"

\* the if / elif chain of the poll loop, for the state read in an
\* iteration that follows `polls` sleeps: the loop keeps no count, the
\* number of sleeps is not read
poll_verdict(state, polls) ==
    IF state = "FAILED" THEN "raise"
    ELSE IF state = "IN_PROGRESS" THEN "sleep"
    ELSE IF state = "SUCCESS" THEN "break"
    ELSE "raise"

\* _snapshot: one iteration of `while True`: snapshot.state(), then raise,
\* time.sleep(self.wtime) or break and return
Poll(s) ==
    /\ ThreadAt(s, "poll")
    /\ LET state == snapshot_state
           verdict == poll_verdict(state, thread[s].polls)
       IN  /\ verdict = "sleep" => thread[s].polls < MaxPolls
           /\ thread' = [thread EXCEPT
                            ![s].observed = state,
                            ![s].polls = IF verdict = "sleep" THEN @ + 1 ELSE @,
                            ![s].pc = IF verdict = "sleep" THEN "poll"
                                      ELSE IF verdict = "break" THEN "returned"
                                      ELSE "raised",
                            ![s].err = IF verdict = "raise" THEN "ValueError" ELSE @]
    /\ cloud' = cloud
    /\ ThreadOnly

\* post_snapshot
PostSnapshot(s) ==
    /\ ThreadAt(s, "post")
    /\ ThreadGoto(s, "returned")
    /\ cloud' = cloud
    /\ ThreadOnly

\* states the search engine reports for a snapshot that is no longer in
\* progress ("INCOMPATIBLE" is one the poll loop does not name)
EndStates == {"SUCCESS", "FAILED", "PARTIAL", "INCOMPATIBLE"}

\* the running snapshot ends, or an operator deletes it ("MISSING") or
\* removes the repository with it ("N/A")
RemoteChange(st) ==
    /\ cloud.repo /\ cloud.snapshot = "IN_PROGRESS"
    /\ cloud' = IF st = "N/A" THEN [cloud EXCEPT !.repo = FALSE, !.snapshot = "MISSING"]
                ELSE [cloud EXCEPT !.snapshot = st]
    /\ UNCHANGED <<snap, other_jobs, senv, cfg, thread, snap_x, snap_registrar,
                   snap_outcome, fmt>>
    /\ OnlyOtherJobs

\* merge_result with `x = dx`: the step's result replaces what was there
merge_result_Replaces(x, k, th) ==
    IF SnapSteps[k] = "pre" THEN CumulativeResult(TRUE, "none")
    ELSE IF SnapSteps[k] = "snapshot"
    THEN CumulativeResult(FALSE, IF th.replace THEN "true" ELSE "false")
    ELSE CumulativeResult(FALSE, "none")

\* merge(x.data, dx.data): the keys of the step's result go into x
merge_result(x, k, th) ==
    IF SnapSteps[k] = "pre" THEN [x EXCEPT !.conf = TRUE]
    ELSE IF SnapSteps[k] = "snapshot"
    THEN [x EXCEPT !.replaced = IF th.replace THEN "true" ELSE "false"]
    ELSE x

\* the except clause with the `raise` left out
step_raised_Swallowed(s) ==
    /\ snap_registrar' = [snap_registrar EXCEPT
                             ![s] = IF snap[s].step = Len(SnapSteps)
                                    THEN Failed(@, SnapSteps[snap[s].step],
                                                Err(thread[s].err, 0))
                                    ELSE Started(Failed(@, SnapSteps[snap[s].step],
                                                        Err(thread[s].err, 0)),
                                                 SnapSteps[snap[s].step + 1])]
    /\ snap_outcome' = [snap_outcome EXCEPT
                           ![s] = IF snap[s].step = Len(SnapSteps)
                                  THEN Returned(snap_x[s]) ELSE @]
    /\ snap' = [snap EXCEPT ![s] = IF @.step = Len(SnapSteps)
                                   THEN [@ EXCEPT !.pc = "done"]
                                   ELSE [@ EXCEPT !.pc = "defer", !.step = @ + 1]]
    /\ snap_x' = snap_x

\* `yield from job` raises: state.failed(exc), raise exc
step_raised(s) ==
    /\ snap_registrar' = [snap_registrar EXCEPT
                             ![s] = Failed(@, SnapSteps[snap[s].step],
                                           Err(thread[s].err, 0))]
    /\ snap_outcome' = [snap_outcome EXCEPT ![s] = Raised(Err(thread[s].err, 0))]
    /\ snap' = [snap EXCEPT ![s].pc = "failed"]
    /\ snap_x' = snap_x

\* `yield from job` returns: merge, state.succeed({snapshot: x.data}), then
\* the next iteration up to its defer_to_thread, or `return x`
step_returned(s) ==
    LET k == snap[s].step
        x == merge_result(snap_x[s], k, thread[s])
    IN  /\ snap_x' = [snap_x EXCEPT ![s] = x]
        /\ IF k = Len(SnapSteps)
           THEN /\ snap_registrar' = [snap_registrar EXCEPT
                                         ![s] = Succeed(@, SnapSteps[k], x)]
                /\ snap_outcome' = [snap_outcome EXCEPT ![s] = Returned(x)]
                /\ snap' = [snap EXCEPT ![s].pc = "done"]
           ELSE /\ snap_registrar' = [snap_registrar EXCEPT
                                         ![s] = Started(Succeed(@, SnapSteps[k], x),
                                                        SnapSteps[k + 1])]
                /\ snap_outcome' = snap_outcome
                /\ snap' = [snap EXCEPT ![s].pc = "defer", ![s].step = k + 1]

\* the step's function has returned or raised, and the coroutine resumes
SnapshotStepReturn(s) ==
    /\ snap[s].pc = "join"
    /\ thread[s].pc \in {"returned", "raised"}
    /\ other_jobs' = other_jobs \ {SnapshotJob(s)}
    /\ IF thread[s].pc = "raised" THEN step_raised(s) ELSE step_returned(s)
    /\ UNCHANGED <<senv, cloud, cfg, thread, fmt>>
    /\ OnlyOtherJobs

\* a step deferred with IndexManager.get_pinfo is launched
ManagerStepStart(m) ==
    /\ ManagerJob(m) \notin other_jobs
    /\ PredicatesHold(IndexManagerPredicates, JobManagerJobs)
    /\ other_jobs' = other_jobs \cup {ManagerJob(m)}
    /\ UNCHANGED <<snap, snapVars>>
    /\ OnlyOtherJobs

ManagerStepEnd(m) ==
    /\ ManagerJob(m) \in other_jobs
    /\ other_jobs' = other_jobs \ {ManagerJob(m)}
    /\ UNCHANGED <<snap, snapVars>>
    /\ OnlyOtherJobs

\* the step functions, as far as they run in SpecAdmission and SpecSnapshot
ThreadNext(s) ==
    \/ PreRepoExists(s)
    \/ PreBucketExists(s)
    \/ PreBucketCreate(s)
    \/ PreRepoCreate(s)
    \/ SnapExists(s)
    \/ SnapDelete(s)
    \/ SnapCreate(s)
    \/ Poll(s)
    \/ PostSnapshot(s)

\* a plain repository config; the bucket and the repository may be missing
InitAdmission ==
    /\ IdleRuns
    /\ NoColdHot
    /\ NoManager
    /\ senv = SnapshotEnv(PlainConfig, TRUE, NoDoc)
    /\ \E b, r \in BOOLEAN : cloud = Cloud(b, r, "MISSING")
    /\ fmt = NoFormat

NextAdmission ==
    \/ \E s \in SnapIds, e \in Envs : SnapshotCall(s, e)
    \/ \E s \in SnapIds : SnapshotStepLaunch(s)
    \/ \E s \in SnapIds : ThreadNext(s)
    \/ \E st \in EndStates : RemoteChange(st)
    \/ \E s \in SnapIds : SnapshotStepReturn(s)
    \/ \E m \in ManagerStepIds : ManagerStepStart(m)
    \/ \E m \in ManagerStepIds : ManagerStepEnd(m)

SpecAdmission == InitAdmission /\ [][NextAdmission]_vars

(* -------- SnapshotEnv.snapshot, one call after another (SpecSnapshot) -- *)

\* a build document with a build version
VersionDoc == (MetaPath :> <<Lit("v7")>>)

\* repository configs: plain, with a calendar field, with a path the build
\* document has, with a calendar field template_out does not know, and
\* with a path the build document lacks
SnapConfigs ==
    {PlainConfig,
     RepositoryConfig(<<Lit("s3-"), CalendarField("Y")>>, <<Lit("bucket")>>,
                      <<Lit("ns/"), DotPath(MetaPath)>>),
     RepositoryConfig(<<Lit("s3")>>, <<Lit("bucket-"), CalendarField("Q")>>, <<Lit("ns")>>),
     RepositoryConfig(<<Lit("s3")>>, <<Lit("bucket")>>, <<Lit("ns/"), DotPath(NamePath)>>)}

\* the index is associated with a build or not; a snapshot of the name may
\* be left from an earlier call when the bucket and the repository exist
InitSnapshot ==
    /\ IdleRuns
    /\ NoColdHot
    /\ NoManager
    /\ \E c \in SnapConfigs, found \in BOOLEAN :
          senv = SnapshotEnv(c, found, IF found THEN VersionDoc ELSE NoDoc)
    /\ \E b, r \in BOOLEAN, st \in {"MISSING", "SUCCESS"} :
          /\ ~(b /\ r) => st = "MISSING"
          /\ cloud = Cloud(b, r, st)
    /\ fmt = NoFormat

\* the second call is made once the first has ended
NextSnapshot ==
    \/ SnapshotCall(1, "env_a")
    \/ snap[1].pc \in {"done", "failed"} /\ SnapshotCall(2, "env_a")
    \/ \E s \in SnapIds : SnapshotStepLaunch(s)
    \/ \E s \in SnapIds : ThreadNext(s)
    \/ \E st \in EndStates \cup {"MISSING", "N/A"} : RemoteChange(st)
    \/ \E s \in SnapIds : SnapshotStepReturn(s)

SpecSnapshot == InitSnapshot /\ [][NextSnapshot]_vars

(* ----- SnapshotEnv.snapshot under fair scheduling (SpecSnapshotFair) --- *)

\* a plain config on an index that has a build; the bucket, the repository
\* and a snapshot of the name may be there or not
InitSnapshotFair ==
    /\ IdleRuns
    /\ NoColdHot
    /\ NoManager
    /\ senv = SnapshotEnv(PlainConfig, TRUE, NoDoc)
    /\ \E b, r \in BOOLEAN, st \in {"MISSING", "SUCCESS"} :
          /\ ~(b /\ r) => st = "MISSING"
          /\ cloud = Cloud(b, r, st)
    /\ fmt = NoFormat

\* the job manager starts a deferred step function once it is admitted,
\* the thread of a step function keeps running, and the event loop resumes
\* the coroutine once the thread's future is done; the remote services and
\* the callers are under no obligation
FairSnapshot ==
    \A s \in SnapIds :
        /\ WF_vars(SnapshotStepLaunch(s))
        /\ WF_vars(ThreadNext(s))
        /\ WF_vars(SnapshotStepReturn(s))

SpecSnapshotFair == InitSnapshotFair /\ [][NextSnapshot]_vars /\ FairSnapshot

(* --------------- RepositoryConfig.format, twice (SpecFormat) ----------- *)

\* leaves of a repository config
FormatLeaves ==
    {<<Lit("ns")>>,
     <<Lit("ns/"), CalendarField("Y")>>,
     <<Lit("ns/"), DotPath(MetaPath)>>,
     <<Lit("ns/"), CalendarField("Q")>>,
     <<Lit("ns/"), DotPath(NamePath)>>,
     <<Lit("100"), Percent>>,
     <<Lit("a"), Quote, Lit("b")>>,
     <<PercentEscape>>}

FormatConfigs ==
    {RepositoryConfig(n, <<Lit("bucket")>>, b) : n \in FormatLeaves, b \in FormatLeaves}

\* build documents: None, and documents whose build version is plain text
\* or text that holds a placeholder, a "%", a double quote or \u0025
FormatDocs ==
    {NoDoc} \cup
    {(MetaPath :> v) : v \in {<<Lit("v7")>>, <<CalendarField("Y")>>, <<DotPath(MetaPath)>>,
                              <<Percent>>, <<Lit("v"), Quote>>, <<PercentEscape>>}}

InitFormat ==
    /\ IdleRuns
    /\ NoColdHot
    /\ NoManager
    /\ senv = SnapshotEnv(PlainConfig, TRUE, NoDoc)
    /\ cloud = Cloud(TRUE, TRUE, "MISSING")
    /\ \E data \in FormatConfigs, doc \in FormatDocs :
          fmt = [NoFormat EXCEPT !.pc = "call", !.data = data, !.doc = doc]

FormatOnly ==
    UNCHANGED <<pc, steps, argVars, source_ids, ids, snap, coldhot, manager, regVars, jobVars,
                registrar, outcome, esVars, es_at_pre, cnt, other_jobs, senv, cloud,
                cfg, thread, snap_x, snap_registrar, snap_outcome>>

\* repcfg.format(doc)
FormatCall ==
    /\ fmt.pc = "call"
    /\ fmt' = [fmt EXCEPT !.pc = "formatted", !.first = format(fmt.data, fmt.doc)]
    /\ FormatOnly

\* format(doc) on the config the first call returned
FormatAgain ==
    /\ fmt.pc = "formatted"
    /\ fmt.first.ok
    /\ fmt' = [fmt EXCEPT !.pc = "again", !.second = format(fmt.first.val, fmt.doc)]
    /\ FormatOnly

NextFormat == FormatCall \/ FormatAgain

SpecFormat == InitFormat /\ [][NextFormat]_vars

(* --------------------------- SnapshotManager --------------------------- *)

\* the "indexer" value of a snapshot environment in the config: a str (the
\* name of an indexing environment), a dict with the keys "name", "env" and
\* "args" or without them (Absent), or a value that is neither
IndexerStr(n) == [kind |-> "str", name |-> n, env |-> Absent, has_args |-> FALSE,
                  args |-> ArgsDict(Absent, Absent)]

IndexerDict(name, env, has_args, args) ==
    [kind |-> "dict", name |-> name, env |-> env, has_args |-> has_args, args |-> args]

IndexerOther == [IndexerStr(Absent) EXCEPT !.kind = "other"]

\* dx["name"] after `dx = dict(name=dx)` for a str and
\* `dx.setdefault("name", dx.pop("env", None))`
dx_name(dx) ==
    IF dx.name # Absent THEN dx.name
    ELSE IF dx.env # Absent THEN dx.env
    ELSE NonePath

\* merge(x, dx) on two dicts of leaves: the keys of dx are set in x
merge(x, dx) ==
    [hosts |-> IF dx.hosts = Absent THEN x.hosts ELSE dx.hosts,
     timeout |-> IF dx.timeout = Absent THEN x.timeout ELSE dx.timeout]

\* merge(x, dx) on the copy x of the registered dict: a key of dx whose
\* value is a dict is merged into the dict x holds under that key, in
\* place; x["args"] is the "args" dict the registered dict holds
heap_after_merge(heap, ref, dx) ==
    IF dx.has_args THEN [heap EXCEPT ![ref] = merge(@, dx.args)] ELSE heap

\* the body of the loop of SnapshotManager.configure for the snapshot
\* environment sname with "indexer" value dx
snap_configure(sname, dx) ==
    IF dx.kind = "other"
    THEN /\ snapmgr' = [snapmgr EXCEPT !.last = "TypeError"]
         /\ registry' = registry
    ELSE IF dx_name(dx) \notin DOMAIN registry.envs
    THEN /\ snapmgr' = [snapmgr EXCEPT !.last = "KeyError"]
         /\ registry' = registry
    ELSE LET x == registry.envs[dx_name(dx)]
         IN  /\ registry' = [registry EXCEPT !.heap = heap_after_merge(@, x.args, dx)]
             /\ snapmgr' = [snapmgr EXCEPT
                               !.register = (sname :> SnapEnvEntry(dx_name(dx), x.args)) @@ @,
                               !.last = "configured"]

\* SnapshotManager.configure(conf), conf holding one snapshot environment
SnapConfigure(sname, dx) ==
    /\ snap_configure(sname, dx)
    /\ UNCHANGED <<pc, steps, argVars, source_ids, ids, snap, snapVars, coldhot, manager, jobVars,
                   registrar, outcome, esVars, es_at_pre, cnt, other_jobs>>

\* latest_index read at the first key of the "index" mapping
latest_index_First(doc) == doc.index[1]

\* list(build_doc['index'].keys())[-1]
latest_index(doc) == doc.index[Len(doc.index)]

\* the end of the coroutine of snapshot_build: self.snapshot(env, index)
\* looks the snapshot environment up and calls its snapshot(), whose
\* coroutine is followed as call 1 up to its first suspension
build_snapshot(doc, index) ==
    IF doc.env \notin DOMAIN snapmgr.register
    THEN /\ snapmgr' = [snapmgr EXCEPT
                           !.build = [pc |-> "done", doc |-> doc, latest_index |-> index,
                                      outcome |-> Raised(Err("KeyError", 0))]]
         /\ UNCHANGED <<snap, cfg, snap_registrar, snap_outcome>>
    ELSE /\ snapmgr' = [snapmgr EXCEPT
                           !.build = [pc |-> "done", doc |-> doc, latest_index |-> index,
                                      outcome |-> Returned(0)]]
         /\ snapshot_begin(1, doc.env)

\* the coroutine of snapshot_build ends with an exception
build_raises(doc, e) ==
    /\ snapmgr' = [snapmgr EXCEPT
                      !.build = [BuildState("done", doc) EXCEPT !.outcome = Raised(e)]]
    /\ UNCHANGED <<snap, cfg, snap_registrar, snap_outcome>>

\* snapshot_build(build_doc): the coroutine up to its return or to the
\* `yield from` on the future of IndexManager.index
SnapshotBuildCall(doc) ==
    /\ snapmgr.build.pc = "idle"
    /\ snap[1].pc = "idle"
    /\ IF doc.env = NonePath
       THEN /\ build_raises(doc, Err("AssertionError", 0))
            /\ UNCHANGED <<manager, pc, steps, batch_size, mode, env_name, es_index_name,
                           coldhot>>
       ELSE IF doc.index # <<>>
       THEN /\ build_snapshot(doc, latest_index(doc))
            /\ UNCHANGED <<manager, pc, steps, batch_size, mode, env_name, es_index_name,
                           coldhot>>
       ELSE /\ manager.indexers = 0
            /\ manager_index(doc.env, doc.id, NonePath, NoKwargs)
            /\ IF index_verdict(doc.env, doc.id).kind = "raise"
               THEN build_raises(doc, Err(index_verdict(doc.env, doc.id).err, 0))
               ELSE /\ snapmgr' = [snapmgr EXCEPT !.build = BuildState("index", doc)]
                    /\ UNCHANGED <<snap, cfg, snap_registrar, snap_outcome>>
    /\ UNCHANGED <<concurrency, total, source_ids, ids, registry, senv, cloud, thread, snap_x,
                   fmt, jobVars, registrar, outcome, esVars, es_at_pre, cnt, other_jobs>>

\* the future IndexManager.index returned: that of the index() coroutine
\* of the indexer it created
index_future ==
    IF manager.last.result.class = "ColdHotIndexer" THEN coldhot.outcome ELSE outcome[1]

\* snapshot_build: the future of the index build is done; its exception
\* ends the coroutine, otherwise the index named after the build is
\* snapshotted
SnapshotBuildResume ==
    /\ snapmgr.build.pc = "index"
    /\ index_future.state # "pending"
    /\ IF index_future.state = "raised"
       THEN build_raises(snapmgr.build.doc, index_future.err)
       ELSE build_snapshot(snapmgr.build.doc, snapmgr.build.doc.id)
    /\ UNCHANGED <<pc, steps, argVars, source_ids, ids, coldhot, manager, registry, senv, cloud,
                   thread, snap_x, fmt, jobVars, registrar, outcome, esVars, es_at_pre, cnt,
                   other_jobs>>

(* ------------- snapshot_build (SpecSnapshotManager) -------------------- *)

\* the config of the index manager
BuildConf == Conf(NoRules, Envs)

\* the "indexer" values of the configs of the snapshot manager
IndexerValues ==
    {IndexerStr("env_a"),
     IndexerDict("env_a", Absent, FALSE, ArgsDict(Absent, Absent)),
     IndexerDict(Absent, "env_a", TRUE, ArgsDict(Absent, "100")),
     IndexerDict(Absent, Absent, FALSE, ArgsDict(Absent, Absent)),
     IndexerDict("env_gone", Absent, FALSE, ArgsDict(Absent, Absent)),
     IndexerOther}

\* build records: of a build with or without an auto-build environment,
\* with no index, one index or two
BuildDocs ==
    {BuildDoc("build_plain", env, index) :
        env \in Envs \cup {NonePath},
        index \in {<<>>, <<"index_a">>, <<"index_b", "index_a">>}}

\* source sizes that make no batch, or two batches of the default size
BuildTotals == {0} \cup {MaxBatchSize + t : t \in Totals(1) \ {0}}

\* both managers are new; the index named after the build exists or not
InitSnapshotManager ==
    /\ pc = [r \in RunIds |-> "idle"]
    /\ steps = [r \in RunIds |-> StepsList(<<>>)]
    /\ batch_size = [r \in RunIds |-> MinBatchSize]
    /\ mode = [r \in RunIds |-> "index"]
    /\ \E t \in BuildTotals : total = [r \in RunIds |-> t]
    /\ source_ids = total
    /\ ids = [r \in RunIds |-> NoIds]
    /\ env_name = [r \in RunIds |-> "env_a"]
    /\ es_index_name = [r \in RunIds |-> "index_a"]
    /\ concurrency = [e \in Envs |-> 1]
    /\ \E x \in {0, 1} : es_index = [n \in BuildIndexNames |-> IF n = "build_plain" THEN x ELSE 0]
    /\ RunState0
    /\ NoColdHot
    /\ NoManager
    /\ PlainSnapshotEnv

\* the managers are configured before builds are handled
NextSnapshotManager ==
    \/ snapmgr.build.pc = "idle" /\ manager.register = {} /\ configure(BuildConf)
    \/ /\ snapmgr.build.pc = "idle"
       /\ \E dx \in IndexerValues : SnapConfigure("env_a", dx)
    \/ \E doc \in BuildDocs : SnapshotBuildCall(doc)
    \/ SnapshotBuildResume
    \/ \E r \in SingleRun :
          \/ Call(r)
          \/ PreStart(r)
          \/ PreExistsReturn(r)
          \/ PreCreateReturn(r)
          \/ IndexStart(r)
          \/ LoopResume(r)
          \/ LaunchJob(r)
          \/ \E j \in DOMAIN jobs[r] : JobSucceed(r, j)
          \/ \E j \in DOMAIN jobs[r] : JobFail(r, j)
          \/ GatherDone(r)
          \/ PostStart(r)
          \/ PostFinish(r)
    \/ batch_finished

SpecSnapshotManager == InitSnapshotManager /\ [][NextSnapshotManager]_vars

(* ------------ the registered environments (SpecRegistry) -------------- *)

\* configs without routing rules
RegistryConfs == {c \in ConfArgs : c.rules = NoRules}

NextRegistry ==
    \/ \E conf \in RegistryConfs : configure(conf)
    \/ \E sname \in Envs, dx \in IndexerValues : SnapConfigure(sname, dx)
    \/ \E env \in Envs : ManagerIndex(env, "build_plain", StepsStr("pre"))
    \/ \E r \in SingleRun :
          \/ Call(r)
          \/ PreStart(r)
          \/ PreExistsReturn(r)
          \/ PreCreateReturn(r)

SpecRegistry == InitManager /\ [][NextRegistry]_vars

(* ------------- the ids argument of the index step (SpecIds) ----------- *)

\* `if ids`: None and the empty list are false
ids_true(i) == i.given /\ i.len > 0

\* the id provider do_index chooses: iter_n over the given ids, or
\* id_feeder over the collection, which holds `count` documents; n is the
\* number of ids it yields
id_provider(i, count) ==
    IF ids_true(i) THEN [from |-> "ids", n |-> i.len]
    ELSE [from |-> "collection", n |-> count]

\* total = len(ids) if ids else collection.count()
schedule_total(i, count) == IF ids_true(i) THEN i.len ELSE count

\* no list, the empty list, and lists of up to MaxBatches batches
IdsArgs == {NoIds} \cup {IdList(n) : n \in Totals(MaxBatches)}

\* an index step alone, called with any ids argument on a collection of any
\* size; total and the id provider are what do_index makes of the two
InitIds ==
    /\ pc = [r \in RunIds |-> IF r \in SingleRun THEN "call" ELSE "idle"]
    /\ steps = [r \in RunIds |-> StepsList(<<"index">>)]
    /\ batch_size = [r \in RunIds |-> MinBatchSize]
    /\ \E m \in {"index", "resume"} : mode = [r \in RunIds |-> m]
    /\ \E i \in IdsArgs, count \in Totals(MaxBatches) :
          /\ ids = [r \in RunIds |-> i]
          /\ total = [r \in RunIds |-> schedule_total(i, count)]
          /\ source_ids = [r \in RunIds |-> id_provider(i, count).n]
    /\ env_name = [r \in RunIds |-> "env_a"]
    /\ es_index_name = [r \in RunIds |-> "index_a"]
    /\ concurrency = [e \in Envs |-> MaxConcurrency]
    /\ es_index = [n \in IndexNames |-> 1]
    /\ RunState0
    /\ NoColdHot
    /\ NoManager
    /\ PlainSnapshotEnv

SpecIds == InitIds /\ [][NextFeed]_vars

(* -------- the index step under fair scheduling (SpecIndexFair) -------- *)

\* the event loop runs what is ready (the first step of do_index, the step
\* after asyncio.sleep(0.0), the callbacks of the futures, the step after
\* gather); every dispatch call returns a job once the job manager admits
\* it; every dispatched job completes or fails, and the worker of a
\* cancelled job ends. The caller is under no obligation.
FairIndex ==
    \A r \in SingleRun :
        /\ WF_vars(IndexStart(r))
        /\ WF_vars(LoopResume(r))
        /\ SF_vars(LaunchJob(r))
        /\ WF_vars(\E j \in DOMAIN jobs[r] : JobSucceed(r, j) \/ JobFail(r, j))
        /\ WF_vars(\E j \in DOMAIN jobs[r] : WorkerExit(r, j))
        /\ WF_vars(batch_finished)
        /\ WF_vars(GatherDone(r))

\* an index step alone on a collection that may have gained or lost a
\* batch of documents between collection.count() and the id feeder's read
InitIndexFair ==
    /\ pc = [r \in RunIds |-> IF r \in SingleRun THEN "call" ELSE "idle"]
    /\ steps = [r \in RunIds |-> StepsList(<<"index">>)]
    /\ batch_size = [r \in RunIds |-> MinBatchSize]
    /\ \E m \in {"index", "resume"} : mode = [r \in RunIds |-> m]
    /\ \E t \in Totals(MaxBatches) :
          /\ total = [r \in RunIds |-> t]
          /\ \E n \in {t, t + MinBatchSize, t - MinBatchSize} \cap Nat :
                source_ids = [r \in RunIds |-> n]
    /\ ids = [r \in RunIds |-> NoIds]
    /\ env_name = [r \in RunIds |-> "env_a"]
    /\ es_index_name = [r \in RunIds |-> "index_a"]
    /\ concurrency = [e \in Envs |-> MaxConcurrency]
    /\ es_index = [n \in IndexNames |-> 1]
    /\ RunState0
    /\ NoColdHot
    /\ NoManager
    /\ PlainSnapshotEnv

SpecIndexFair == InitIndexFair /\ [][NextFeed]_vars /\ FairIndex

(* ------- two runs that may build the same index (SpecSameIndex) ------- *)

\* two Indexers called with mode 'index' for pre and index, on the same
\* destination or on two; no destination exists
InitSameIndex ==
    /\ pc = [r \in RunIds |-> "call"]
    /\ steps = [r \in RunIds |-> StepsList(<<"pre", "index">>)]
    /\ batch_size = [r \in RunIds |-> MinBatchSize]
    /\ mode = [r \in RunIds |-> "index"]
    /\ \E t \in Totals(1) : total = [r \in RunIds |-> t]
    /\ source_ids = total
    /\ ids = [r \in RunIds |-> NoIds]
    /\ env_name = [r \in RunIds |-> "env_a"]
    /\ \E n \in IndexNames : es_index_name = [r \in RunIds |-> IF r = 1 THEN "index_a" ELSE n]
    /\ concurrency = [e \in Envs |-> MaxConcurrency]
    /\ es_index = [n \in IndexNames |-> 0]
    /\ RunState0
    /\ NoColdHot
    /\ NoManager
    /\ PlainSnapshotEnv

SameIndexRunNext(r) ==
    \/ Call(r)
    \/ PreStart(r)
    \/ PreExistsReturn(r)
    \/ PreCreateReturn(r)
    \/ IndexStart(r)
    \/ LoopResume(r)
    \/ LaunchJob(r)
    \/ \E j \in DOMAIN jobs[r] : JobSucceed(r, j)
    \/ \E j \in DOMAIN jobs[r] : JobFail(r, j)
    \/ GatherDone(r)
    \/ PostStart(r)

NextSameIndex ==
    \/ \E r \in RunIds : SameIndexRunNext(r)
    \/ batch_finished

SpecSameIndex == InitSameIndex /\ [][NextSameIndex]_vars

(* ---------- two runs, each with its own cells (SpecOwnCells) ---------- *)

\* two Indexers on one environment, each asked for the index step alone;
\* the first has several batches to dispatch, the second has one
InitOwnCells ==
    /\ pc = [r \in RunIds |-> "call"]
    /\ steps = [r \in RunIds |-> StepsStr("index")]
    /\ batch_size = [r \in RunIds |-> MinBatchSize]
    /\ mode = [r \in RunIds |-> "index"]
    /\ total = [r \in RunIds |->
                    IF r = 1 THEN MaxConcBatches * MinBatchSize ELSE MinBatchSize]
    /\ source_ids = total
    /\ ids = [r \in RunIds |-> NoIds]
    /\ env_name = [r \in RunIds |-> "env_a"]
    /\ es_index_name = [r \in RunIds |-> IF r = 1 THEN "index_a" ELSE "index_b"]
    /\ concurrency = [e \in Envs |-> MaxConcurrency]
    /\ es_index = [n \in IndexNames |-> 1]
    /\ RunState0
    /\ NoColdHot
    /\ NoManager
    /\ PlainSnapshotEnv

NextOwnCells ==
    \/ \E r \in RunIds : ConcRunNext(r)
    \/ batch_finished

SpecOwnCells == InitOwnCells /\ [][NextOwnCells]_vars

(* ============================== claims ================================ *)

StepRank(s) == IF s = "pre" THEN 1 ELSE IF s = "index" THEN 2 ELSE 3

BatchFailureRaised(r) ==
    outcome[r].state = "raised" /\ outcome[r].err.kind = "BatchError"

\* the pre step of run r has been started / has recorded its terminal status
PreStarted(r) == Len(registrar[r]) >= 1 /\ registrar[r][1].step = "pre"

PreEnded(r) == PreStarted(r) /\ Len(registrar[r]) >= 2

EsCallsOf(r) == {i \in DOMAIN es_log : es_log[i].run = r}

EffectiveCalls == SelectSeq(es_log, LAMBDA c : c.effect)

IndexerJobsOn(e) ==
    {job \in JobManagerJobs : job.category = INDEXER_CATEGORY /\ job.source = e}

\* C1: once batch_finished has recorded a failure in the error cell of a
\* run, do_index appends no further job to its jobs list (no batch is
\* dispatched), wherever the loop is suspended at the time of the report.
C1_NoDispatchAfterReport ==
    [][\A r \in RunIds : error[r] # NoErr => Len(jobs'[r]) = Len(jobs[r])]_vars

\* C2: when a batch failure has made the index step raise, no dispatched
\* job of the run is left running: each one has completed or was cancelled.
C2_FailureCancelsPending ==
    \A r \in RunIds :
        BatchFailureRaised(r) =>
            \A j \in DOMAIN jobs[r] : jobs[r][j].fut # "running"

\* C3: the batch error that index() raises is the one that batch_finished
\* recorded first in that run.
C3_FirstErrorRaised ==
    \A r \in RunIds : BatchFailureRaised(r) => outcome[r].err = first_error[r]

\* C4: the status records of a run show the requested steps in the order
\* pre, index, post without overlap: a step is started first of all or
\* right after an earlier-ranked step succeeded, its terminal record
\* follows its own `started` directly, and nothing follows a `failed`.
C4_StepsInFixedOrder ==
    \A r \in RunIds :
        \A i \in DOMAIN registrar[r] :
            LET rec == registrar[r][i]
            IN  /\ Requested(r, rec.step)
                /\ rec.state = "started" /\ i > 1 =>
                      /\ registrar[r][i - 1].state = "succeeded"
                      /\ StepRank(registrar[r][i - 1].step) < StepRank(rec.step)
                /\ rec.state # "started" =>
                      /\ i > 1
                      /\ registrar[r][i - 1].state = "started"
                      /\ registrar[r][i - 1].step = rec.step

\* a run given the names in reverse order that recorded every step succeeded
C4_Witness ==
    \E r \in RunIds :
        /\ steps[r].val = <<"post", "index", "pre">>
        /\ Len(registrar[r]) = 6
        /\ registrar[r][2] = StatusRecord("pre", "succeeded", NoErr, 0)
        /\ registrar[r][3].step = "index"
        /\ registrar[r][6] = StatusRecord("post", "succeeded", NoErr, 0)
        /\ Len(jobs[r]) >= 2

RecordsOf(r, step, states) ==
    {i \in DOMAIN registrar[r] :
        registrar[r][i].step = step /\ registrar[r][i].state \in states}

\* C5: a step records `started` at most once and then exactly one terminal
\* status by the time index() ends; a `failed` record carries the error
\* that index() raises to its caller, and a run that returned has none.
C5_OneTerminalStatus ==
    \A r \in RunIds :
        \A s \in StepNames :
            LET started == RecordsOf(r, s, {"started"})
                ended == RecordsOf(r, s, {"succeeded", "failed"})
                failed == RecordsOf(r, s, {"failed"})
            IN  /\ Cardinality(started) <= 1
                /\ Cardinality(ended) <= Cardinality(started)
                /\ pc[r] = "done" => Cardinality(ended) = Cardinality(started)
                /\ \A i \in failed :
                      /\ pc[r] = "done"
                      /\ outcome[r] = Raised(registrar[r][i].err)

\* an index step that failed on a batch error after pre had succeeded
C5_Witness ==
    \E r \in RunIds :
        /\ pc[r] = "done"
        /\ Len(registrar[r]) = 4
        /\ registrar[r][2].state = "succeeded"
        /\ registrar[r][4].step = "index"
        /\ registrar[r][4].state = "failed"
        /\ BatchFailureRaised(r)

ConfigurationError(r) ==
    \/ mode[r] \notin ValidModes
    \/ batch_size[r] < MinBatchSize
    \/ batch_size[r] > MaxBatchSize
    \/ steps[r].kind = "other"

\* C6: a call of index() with a configuration error (mode outside the four
\* modes, batch_size outside [50, 10000], steps neither list nor str)
\* raises and writes no status record at all.
C6_ConfigErrorsBeforeStatus ==
    \A r \in RunIds :
        ConfigurationError(r) =>
            /\ registrar[r] = <<>>
            /\ pc[r] = "done" => outcome[r].state = "raised"

\* C7: with mode 'index' and a destination that exists when the pre step
\* starts, the destination keeps its incarnation, the run issues neither
\* delete nor create, dispatches no job, and the pre step ends `failed`
\* with the precondition error raised to the caller.
C7_IndexModeExistingFails ==
    \A r \in RunIds :
        mode[r] = "index" /\ PreStarted(r) /\ es_at_pre[r] # 0 =>
            /\ es_index[Dest(r)] = es_at_pre[r]
            /\ EsCallsOf(r) = {}
            /\ jobs[r] = <<>>
            /\ pc[r] \in {"pre_exists", "done"}
            /\ pc[r] = "done" =>
                  /\ registrar[r] =
                        <<StatusRecord("pre", "started", NoErr, 0),
                          StatusRecord("pre", "failed", Err("IndexerException", 0), 0)>>
                  /\ outcome[r] = Raised(Err("IndexerException", 0))

C7_Witness ==
    \E r \in RunIds :
        /\ mode[r] = "index"
        /\ es_at_pre[r] # 0
        /\ Requested(r, "index")
        /\ pc[r] = "done"
        /\ registrar[r][2].state = "failed"

\* C8: with mode 'resume' or 'merge' the pre step issues neither delete nor
\* create and leaves the destination as it found it; it ends `failed` with
\* an error raised when the destination was missing and `succeeded` when
\* it existed.
C8_ResumeMergeKeepIndex ==
    \A r \in RunIds :
        mode[r] \in {"resume", "merge"} /\ PreStarted(r) =>
            /\ es_index[Dest(r)] = es_at_pre[r]
            /\ EsCallsOf(r) = {}
            /\ PreEnded(r) =>
                  IF es_at_pre[r] = 0
                  THEN /\ registrar[r][2] =
                             StatusRecord("pre", "failed", Err("IndexerException", 0), 0)
                       /\ outcome[r] = Raised(Err("IndexerException", 0))
                  ELSE registrar[r][2] = StatusRecord("pre", "succeeded", NoErr, 0)

C8_Witness ==
    \E r \in RunIds :
        /\ mode[r] = "merge"
        /\ es_at_pre[r] # 0
        /\ PreEnded(r)
        /\ registrar[r][2].state = "succeeded"
        /\ es_index[Dest(r)] = es_at_pre[r]

\* C9: with mode 'purge' the pre step ends `succeeded` whether or not the
\* destination existed, and then the destination exists as an incarnation
\* created by this step: an existing one was deleted and then one was
\* created, a missing one was only created.
C9_PurgeRecreates ==
    \A r \in RunIds :
        mode[r] = "purge" /\ PreEnded(r) =>
            /\ registrar[r][2] = StatusRecord("pre", "succeeded", NoErr, 0)
            /\ es_index[Dest(r)] # 0
            /\ es_index[Dest(r)] # es_at_pre[r]
            /\ EffectiveCalls =
                  IF es_at_pre[r] # 0
                  THEN <<EsCall("delete", r, TRUE), EsCall("create", r, TRUE)>>
                  ELSE <<EsCall("create", r, TRUE)>>

C9_Witness ==
    \E r \in RunIds :
        /\ mode[r] = "purge"
        /\ es_at_pre[r] # 0
        /\ PreEnded(r)
        /\ registrar[r][2].state = "succeeded"
        /\ es_index[Dest(r)] = es_at_pre[r] + 1

\* C10: the live batch-indexing jobs whose pinfo names one environment,
\* over all runs, never outnumber that environment's concurrency limit;
\* and a run waiting for admission is admitted whenever that number is
\* below the limit, whatever jobs of other environments or categories run.
C10_ConcurrencyCap ==
    /\ \A e \in Envs : Cardinality(IndexerJobsOn(e)) <= concurrency[e]
    /\ \A r \in RunIds :
          pc[r] = "admission"
              /\ Cardinality(IndexerJobsOn(env_name[r])) < concurrency[env_name[r]]
          => Admitted(r)

\* both runs on one environment fill its limit together while a job of
\* another category with the same source runs and a run waits for admission
C10_Witness ==
    /\ env_name[2] = "env_a"
    /\ concurrency["env_a"] = 2
    /\ Cardinality(IndexerJobsOn("env_a")) = 2
    /\ \E j \in DOMAIN jobs[1] : jobs[1][j].alive
    /\ \E j \in DOMAIN jobs[2] : jobs[2][j].alive
    /\ OtherJob("env_a") \in other_jobs
    /\ pc[1] = "admission"
    /\ ~Admitted(1)

JobsOfCategory(c) == {j \in JobManagerJobs : j.category = c}

\* C11: at most one step deferred with the index manager's pinfo is
\* running at any time, and at most one snapshot step is: two snapshot
\* steps never run concurrently.
C11_OneManagerStep ==
    /\ Cardinality(JobsOfCategory(INDEXMANAGER_CATEGORY)) <= 1
    /\ Cardinality(JobsOfCategory(SNAPSHOOTER_CATEGORY)) <= 1

\* the least k with k * b >= t
CeilDiv(t, b) == CHOOSE k \in 0..t : k * b >= t /\ (k = 0 \/ (k - 1) * b < t)

RECURSIVE SumTo(_, _, _)
SumTo(F(_), a, n) == IF n < a THEN 0 ELSE F(n) + SumTo(F, a, n - 1)

\* the for loop of do_index has ended without failing fast
LoopEnded(r) ==
    \/ pc[r] = "gather"
    \/ \E i \in DOMAIN registrar[r] :
          /\ registrar[r][i].step = "index"
          /\ \/ registrar[r][i].state = "succeeded"
             \/ registrar[r][i].err.kind = "ScheduleMismatch"

\* C12: when the id source supplies exactly `total` ids, every dispatched
\* batch but the last of ceil(total / batch_size) has batch_size ids, no
\* more than ceil(total / batch_size) batches are dispatched, and once the
\* loop has ended exactly that many were, their sizes adding up to total.
C12_BatchPartition ==
    \A r \in RunIds :
        source_ids[r] = total[r] /\ pc[r] \notin {"idle", "call"} =>
            LET n == CeilDiv(total[r], batch_size[r])
                Ids(j) == DispatchedIds(r, j)
            IN  /\ Len(jobs[r]) <= n
                /\ \A j \in DOMAIN jobs[r] :
                      /\ Ids(j) > 0
                      /\ j < n => Ids(j) = batch_size[r]
                /\ LoopEnded(r) =>
                      /\ Len(jobs[r]) = n
                      /\ SumTo(Ids, 1, Len(jobs[r])) = total[r]

\* a run of three batches, the last one partial, all dispatched
C12_Witness ==
    \E r \in RunIds :
        /\ source_ids[r] = total[r]
        /\ total[r] = 3 * batch_size[r] - 20
        /\ pc[r] = "gather"
        /\ Len(jobs[r]) = 3
        /\ DispatchedIds(r, 3) = batch_size[r] - 20

\* every batch of the run was dispatched and every job returned a count
AllJobsOk(r) ==
    /\ Len(jobs[r]) = Batches(r)
    /\ \A j \in DOMAIN jobs[r] : jobs[r][j].fut = "ok"

\* C13: an index step recorded as `succeeded` in a mode other than
\* 'resume' has finished = total; and when every dispatched job returned a
\* count, the step ends `succeeded` if the counts add up to total or the
\* mode is 'resume', and otherwise ends `failed` with the mismatch raised.
C13_MismatchFails ==
    \A r \in RunIds :
        \A i \in RecordsOf(r, "index", {"succeeded", "failed"}) :
            LET rec == registrar[r][i]
            IN  /\ rec.state = "succeeded" /\ mode[r] # "resume" =>
                      finished[r] = total[r]
                /\ AllJobsOk(r) =>
                      IF mode[r] = "resume" \/ finished[r] = total[r]
                      THEN rec.state = "succeeded"
                      ELSE /\ rec = StatusRecord("index", "failed",
                                                 Err("ScheduleMismatch", 0), 0)
                           /\ outcome[r] = Raised(Err("ScheduleMismatch", 0))

\* two jobs returned counts that fall short of total in mode 'index'
C13_Witness ==
    \E r \in RunIds :
        /\ mode[r] = "index"
        /\ Len(jobs[r]) = 2
        /\ AllJobsOk(r)
        /\ finished[r] < total[r]
        /\ outcome[r] = Raised(Err("ScheduleMismatch", 0))

\* C14: the Schedule's finished counter never exceeds its total.
C14_FinishedAtMostTotal == \A r \in RunIds : finished[r] <= total[r]

\* C15: the count the index step records with `succeeded`, and the count
\* index() returns, equal the sum of the counts the batch jobs reported.
C15_ReturnsProcessedCount ==
    \A r \in RunIds :
        /\ \A i \in RecordsOf(r, "index", {"succeeded"}) :
              registrar[r][i].count = finished[r]
        /\ outcome[r].state = "returned" => outcome[r].cnt = finished[r]

ColdHotRequested(name) == name \in Range(coldhot.steps.val)

\* C16: the hot Indexer's index() is entered only after the cold Indexer
\* ran pre and index to `succeeded` (with steps (pre, index) and the
\* caller's mode) and returned; the hot Indexer runs the index step alone
\* in mode 'merge'; after a cold failure the hot Indexer is never called;
\* and a composite that returned with 'index' requested has the hot index
\* step recorded as `succeeded`.
C16_ColdBeforeHot ==
    /\ pc[Cold] # "idle" =>
          /\ ColdHotRequested("index")
          /\ steps[Cold].val = <<"pre", "index">>
          /\ mode[Cold] = coldhot.mode
    /\ pc[Hot] # "idle" =>
          /\ pc[Cold] = "done"
          /\ outcome[Cold].state = "returned"
          /\ registrar[Cold] =
                <<StatusRecord("pre", "started", NoErr, 0),
                  StatusRecord("pre", "succeeded", NoErr, 0),
                  StatusRecord("index", "started", NoErr, 0),
                  StatusRecord("index", "succeeded", NoErr, total[Cold])>>
          /\ steps[Hot].val = <<"index">>
          /\ mode[Hot] = "merge"
          /\ es_log = SelectSeq(es_log, LAMBDA c : c.run = Cold)
          /\ \A i \in DOMAIN registrar[Hot] : registrar[Hot][i].step = "index"
    /\ outcome[Cold].state = "raised" =>
          /\ pc[Hot] = "idle"
          /\ registrar[Hot] = <<>>
          /\ jobs[Hot] = <<>>
    /\ coldhot.outcome.state = "returned" /\ ColdHotRequested("index") =>
          registrar[Hot] =
             <<StatusRecord("index", "started", NoErr, 0),
               StatusRecord("index", "succeeded", NoErr, total[Hot])>>

\* the caller asked for 'purge' on an existing destination and the hot
\* index step has succeeded in mode 'merge'
C16_Witness ==
    /\ coldhot.mode = "purge"
    /\ es_at_pre[Cold] # 0
    /\ Len(jobs[Cold]) >= 2
    /\ mode[Hot] = "merge"
    /\ Len(registrar[Hot]) = 2
    /\ registrar[Hot][2].state = "succeeded"

\* C17: when index() of the composite has returned with 'post' among the
\* steps, the hot Indexer's post hook has run to completion; and the cold
\* Indexer never starts a post step.
C17_HotPostCompletes ==
    /\ coldhot.outcome.state = "returned" /\ ColdHotRequested("post") =>
          coldhot.hot_post = "completed"
    /\ \A i \in DOMAIN registrar[Cold] : registrar[Cold][i].step # "post"

\* the configured keys (other than None) that are paths of the build
Matches(rules, target) ==
    {k \in DOMAIN rules \ {NonePath} : k \in Range(traverse(target))}

\* the classes that count as the default: DEFAULT_INDEXER, and the class
\* of the rules' None entry when there is one
DefaultClasses(rules) ==
    {DEFAULT_INDEXER} \cup {rules[k] : k \in DOMAIN rules \cap {NonePath}}

\* the last call got as far as _select_indexer
SelectionReached ==
    /\ manager.last.op \in {"select", "index"}
    /\ manager.last.result.err \notin {"UnknownEnv", "ValueError"}

\* C18: when the build matches none of the configured paths, the last
\* call of _select_indexer returned the default class.
C18_DefaultWhenNoMatch ==
    SelectionReached /\ Matches(manager.config.rules, manager.last.target) = {} =>
        /\ manager.last.result.kind = "class"
        /\ manager.last.result.class \in DefaultClasses(manager.config.rules)

\* C19: when exactly one configured path is a path of the build, the last
\* call of _select_indexer returned that path's class; when more than one
\* is, it raised the ambiguity error, and IndexManager.index then created
\* no indexer; and while no indexer was created no task is scheduled and
\* no status is written.
C19_OneMatchRoutesManyRaise ==
    /\ SelectionReached =>
          LET found == Matches(manager.config.rules, manager.last.target)
          IN  /\ Cardinality(found) = 1 =>
                    \A k \in found :
                        manager.last.result = Class(manager.config.rules[k])
              /\ Cardinality(found) > 1 =>
                    /\ manager.last.result = RaiseOf("RuntimeError")
                    /\ ~manager.last.created
    /\ manager.last.op = "index" =>
          manager.last.created = (manager.last.result.kind = "class")
    /\ manager.indexers = 0 =>
          /\ \A r \in RunIds : pc[r] = "idle" /\ registrar[r] = <<>>
          /\ coldhot.pc = "idle"

\* index() met two matching paths after an indexer for another build had
\* not yet been created: nothing is scheduled
C19_Witness ==
    /\ manager.last.op = "index"
    /\ manager.last.target = "build_cold"
    /\ Cardinality(Matches(manager.config.rules, "build_cold")) = 2
    /\ manager.last.result = RaiseOf("RuntimeError")
    /\ manager.indexers = 0

\* C20: the registered environment names are those of the current config.
C20_RegistryIsLatestConfig == manager.register = manager.config.envs

\* C22: SnapshotEnv.snapshot records `started` and then `succeeded` or
\* `failed` for pre, snapshot, post in that order; a step is started only
\* after the one before it was recorded `succeeded` and its function runs
\* only between the two records; a `failed` record is the last one, no
\* later step is started, and the holder of the future gets the exception.
C22_SnapshotStepsInOrder ==
    \A s \in SnapIds :
        LET reg == snap_registrar[s]
        IN  /\ Len(reg) <= 2 * Len(SnapSteps)
            /\ \A i \in DOMAIN reg :
                  /\ reg[i].step = SnapSteps[(i + 1) \div 2]
                  /\ i % 2 = 1 => reg[i].state = "started"
                  /\ i % 2 = 0 => reg[i].state \in {"succeeded", "failed"}
                  /\ i > 1 /\ i % 2 = 1 => reg[i - 1].state = "succeeded"
                  /\ reg[i].state = "failed"
                        => /\ i = Len(reg)
                           /\ snap[s].pc = "failed"
                           /\ snap_outcome[s] = Raised(reg[i].err)
            /\ thread[s].pc \notin {"none", "returned", "raised"} /\ snap[s].pc = "join"
                  => Len(reg) % 2 = 1 /\ StepEntry((Len(reg) + 1) \div 2) = StepEntry(snap[s].step)
            /\ snap_outcome[s].state = "returned"
                  => /\ Len(reg) = 2 * Len(SnapSteps)
                     /\ reg[Len(reg)].state = "succeeded"

\* the snapshot step failed after pre succeeded: post was never started
C22_Witness ==
    \E s \in SnapIds :
        /\ Len(snap_registrar[s]) = 4
        /\ snap_registrar[s][2].state = "succeeded"
        /\ snap_registrar[s][4].state = "failed"
        /\ snap_outcome[s].state = "raised"
        /\ cloud.log # <<>>

\* the step that records `succeeded` for the pre step of call s
PreSucceeds(s) ==
    /\ Len(snap_registrar[s]) = 1
    /\ Len(snap_registrar'[s]) >= 2
    /\ snap_registrar'[s][2].state = "succeeded"

\* C23: when the pre step of a snapshot is recorded `succeeded`, the bucket
\* and the repository both exist, whichever of them existed before.
C23_PreLeavesBucketAndRepository ==
    [][\A s \in SnapIds : PreSucceeds(s) => cloud'.bucket /\ cloud'.repo]_vars

\* the calls about the snapshot that call s issued, in order
SnapshotCallsOf(s) ==
    SelectSeq(cloud.log, LAMBDA c : c.what = "snapshot" /\ c.call = s)

\* C24: the snapshot step issues a delete only for a snapshot that exists
\* and a create only when none exists (so an existing snapshot is deleted
\* before the create), a call's delete comes before its create, and the
\* `replaced` it reports is true exactly when it issued a delete.
C24_DeleteBeforeCreate ==
    /\ \A i \in DOMAIN cloud.log : cloud.log[i].what = "snapshot" => cloud.log[i].ok
    /\ \A s \in SnapIds :
          LET calls == SnapshotCallsOf(s)
              ops == [i \in DOMAIN calls |-> calls[i].op]
          IN  /\ ops \in {<<>>, <<"create">>, <<"delete">>, <<"delete", "create">>}
              /\ snap[s].pc = "join" /\ SnapSteps[snap[s].step] = "snapshot"
                    => (thread[s].replace <=> (ops # <<>> /\ ops[1] = "delete"))
              /\ snap_x[s].replaced # "none"
                    => (snap_x[s].replaced = "true" <=> (ops # <<>> /\ ops[1] = "delete"))

\* an existing snapshot was replaced and the call reported it
C24_Witness ==
    \E s \in SnapIds :
        /\ snap_x[s].replaced = "true"
        /\ Len(SnapshotCallsOf(s)) = 2
        /\ \E t \in SnapIds : snap_x[t].replaced = "false" /\ Len(SnapshotCallsOf(t)) = 1

\* call s is in its snapshot step, or has failed in it
InSnapshotStep(s) == snap[s].pc \in {"join", "failed"} /\ SnapSteps[snap[s].step] = "snapshot"

\* C25: the poll loop returns only after it read SUCCESS, goes on polling
\* only after it read IN_PROGRESS, and raises after FAILED and after any
\* other state; the snapshot step is then recorded `failed` and post is
\* never started.
C25_PollEndsOnSuccessOrRaises ==
    \A s \in SnapIds :
        InSnapshotStep(s) /\ thread[s].observed # "none"
            => LET seen == thread[s].observed
                   reg == snap_registrar[s]
               IN  /\ thread[s].pc \in {"poll", "returned", "raised"}
                   /\ thread[s].pc = "returned" <=> seen = "SUCCESS"
                   /\ thread[s].pc = "poll" <=> seen = "IN_PROGRESS"
                   /\ thread[s].pc = "raised" <=> seen \notin {"SUCCESS", "IN_PROGRESS"}
                   /\ thread[s].pc = "raised" /\ snap[s].pc = "failed"
                         => /\ Len(reg) = 4
                            /\ reg[4] = StatusRecord("snapshot", "failed",
                                                     Err("ValueError", 0), 0)
                            /\ snap_outcome[s] = Raised(Err("ValueError", 0))

\* one call failed on PARTIAL after a sleep, the next one on a repository
\* that was removed
C25_Witness ==
    /\ InSnapshotStep(1) /\ snap[1].pc = "failed"
    /\ thread[1].observed = "PARTIAL" /\ thread[1].polls > 0
    /\ InSnapshotStep(2) /\ snap[2].pc = "failed"
    /\ thread[2].observed = "N/A"

\* C26: snapshot polling has no hard timeout: a step taken while the
\* snapshot is IN_PROGRESS, and that leaves it so, leaves the poll loop of
\* every call where it is, whatever the number of sleeps behind it; the loop
\* is left only by a step that finds another state.
C26_NoPollingTimeout ==
    [][\A s \in SnapIds :
          /\ thread[s].pc = "poll"
          /\ snapshot_state = "IN_PROGRESS"
          /\ snapshot_state' = "IN_PROGRESS"
          => /\ thread'[s].pc = "poll"
             /\ thread'[s].polls \in {thread[s].polls, thread[s].polls + 1}
             /\ snap'[s] = snap[s]
             /\ snap_registrar'[s] = snap_registrar[s]]_vars

\* a loop that has slept MaxPolls times is still polling
C26_Witness ==
    \E s \in SnapIds :
        /\ thread[s].pc = "poll"
        /\ thread[s].polls = MaxPolls
        /\ thread[s].observed = "IN_PROGRESS"
        /\ snapshot_state = "IN_PROGRESS"

\* a calendar-field placeholder of the config that no calendar field
\* resolves
LeftoverCalendarField(data) ==
    \E k \in DOMAIN data : \E i \in DOMAIN data[k] :
        data[k][i].t = "cal" /\ data[k][i].v \notin DOMAIN Calendar

\* a dot-path placeholder of the config that the build document does not
\* resolve
LeftoverDotPath(data, doc) ==
    \E k \in DOMAIN data : \E i \in DOMAIN data[k] :
        data[k][i].t = "path" /\ data[k][i].v \notin DOMAIN doc

\* the call raised before its loop: nothing recorded, no service asked for
\* a change
FailedBeforeAnyStep(s) ==
    /\ snap[s].pc = "failed"
    /\ snap_outcome[s] = Raised(Err("ValueError", 0))
    /\ snap_registrar[s] = <<>>
    /\ \A i \in DOMAIN cloud.log : cloud.log[i].call # s

\* C29: when resolving the repository config against the build document
\* leaves a placeholder of either syntax unresolved, SnapshotEnv.snapshot
\* raises the templating error before any step status is recorded and
\* before any bucket, repository or snapshot is created or deleted.
C29_UnresolvedPlaceholderFailsFirst ==
    \A s \in SnapIds :
        /\ snap[s].pc # "idle"
        /\ senv.found
        /\ LeftoverCalendarField(senv.repcfg) \/ LeftoverDotPath(senv.repcfg, senv.doc)
        => FailedBeforeAnyStep(s)

\* the step issues a create for the bucket or the repository (what)
IssuesCreate(what) ==
    /\ Len(cloud'.log) = Len(cloud.log) + 1
    /\ cloud'.log[Len(cloud'.log)].op = "create"
    /\ cloud'.log[Len(cloud'.log)].what = what

\* pre creates only what does not exist
PreCreatesOnlyTheMissing ==
    /\ IssuesCreate("bucket") => ~cloud.bucket
    /\ IssuesCreate("repository") => ~cloud.repo

\* pre has found neither the repository nor the bucket and takes its
\* next step
PreFoundNeither(s) ==
    /\ ThreadAt(s, "pre_bucket_create")
    /\ ~cloud.bucket /\ ~cloud.repo
    /\ thread'[s] # thread[s]

\* C30: where neither the bucket nor the repository exists, pre creates
\* the bucket and goes on to create the repository, and then returns; pre
\* never issues a create for a bucket or a repository that exists.
C30_PreCreatesBucketThenRepository ==
    [][/\ \A s \in SnapIds :
             /\ PreFoundNeither(s)
                   => cloud'.bucket /\ thread'[s].pc = "pre_repo_create"
             /\ ThreadAt(s, "pre_repo_create") /\ thread'[s] # thread[s]
                   => cloud'.repo /\ thread'[s].pc = "returned"
       /\ PreCreatesOnlyTheMissing]_vars

\* C28: templating is idempotent: when format succeeds on a repository
\* config and a build document, format on its result and the same document
\* succeeds and returns a document identical to the first result.
C28_FormatIdempotent ==
    fmt.pc = "again" => fmt.second.ok /\ fmt.second.val = fmt.first.val

\* the build record snapshot_build was called with has an auto-build
\* environment
BuildHandled(doc) == snapmgr.build.pc # "idle" /\ snapmgr.build.doc = doc /\ doc.env # NonePath

\* C27: snapshot_build on a build record with at least one index asks a
\* snapshot of the last key of its "index" mapping and triggers no index
\* build; on a record without an index it triggers an index build named
\* after the build id, asks the snapshot of that index only once the
\* build's index() has returned, and asks none when the index build raised.
C27_SnapshotOfLatestOrBuiltIndex ==
    \A doc \in BuildDocs :
        BuildHandled(doc) =>
            LET b == snapmgr.build
                asked == snap[1].pc # "idle"
            IN  /\ asked <=> b.pc = "done" /\ b.outcome.state = "returned"
                /\ doc.index # <<>>
                      => /\ b.pc = "done"
                         /\ b.latest_index = doc.index[Len(doc.index)]
                         /\ manager.indexers = 0
                         /\ manager.last.op # "index"
                /\ doc.index = <<>>
                      => /\ manager.last = CallRecord("index", doc.id, manager.last.result,
                                                      manager.indexers = 1)
                         /\ manager.indexers = 1 => es_index_name[1] = doc.id
                         /\ manager.indexers = 0 => b.outcome.state = "raised"
                         /\ b.pc = "index" => manager.indexers = 1
                         /\ asked => /\ outcome[1].state = "returned"
                                     /\ pc[1] = "done"
                                     /\ b.latest_index = doc.id
                         /\ outcome[1].state = "raised" /\ b.pc = "done"
                               => b.outcome = Raised(outcome[1].err)
                         /\ outcome[1].state = "raised" => ~asked

\* the index build ran two batches and its post step, and the snapshot of
\* the index named after the build was asked
C27_Witness ==
    /\ BuildHandled(BuildDoc("build_plain", "env_a", <<>>))
    /\ finished[1] > MaxBatchSize
    /\ outcome[1].state = "returned"
    /\ Len(registrar[1]) = 6
    /\ snap[1].pc = "defer"
    /\ snapmgr.build.latest_index = "build_plain"

\* what the registry shows for the indexing environment n
RegistryView(reg, n) ==
    [args |-> reg.heap[reg.envs[n].args],
     concurrency |-> reg.envs[n].concurrency,
     name |-> reg.envs[n].name]

\* C21: an operation that does not register the indexing environment n
\* again leaves what the IndexManager registry shows for n (connection
\* args, concurrency, name) as it was.
C21_RegisteredEnvironmentUnchanged ==
    [][\A n \in DOMAIN registry.envs :
          n \in DOMAIN registry'.envs /\ registry'.envs[n] = registry.envs[n]
              => RegistryView(registry', n) = RegistryView(registry, n)]_vars

\* C40: index() called with mode None is accepted like mode 'index': with
\* valid steps and batch_size the run is not refused, and a requested pre
\* step is started, fails on a destination that exists and otherwise
\* creates it.
C40_ModeNoneLikeIndex ==
    \A r \in RunIds :
        /\ mode[r] = "None"
        /\ pc[r] = "done"
        /\ steps[r].kind # "other"
        /\ MinBatchSize <= batch_size[r] /\ batch_size[r] <= MaxBatchSize
        /\ Requested(r, "pre")
        => /\ PreEnded(r)
           /\ IF es_at_pre[r] # 0
              THEN registrar[r][2] =
                      StatusRecord("pre", "failed", Err("IndexerException", 0), 0)
              ELSE /\ registrar[r][2] = StatusRecord("pre", "succeeded", NoErr, 0)
                   /\ \E i \in EsCallsOf(r) : es_log[i].op = "create" /\ es_log[i].effect

\* C31: while the post hook of a run executes, the job manager holds a
\* thread job for it: the hook was handed to defer_to_thread and does not
\* run in the coroutine of index() on the event loop.
C31_PostRunsInThread ==
    \A r \in RunIds :
        pc[r] = "post_run" =>
            \E job \in JobManagerJobs :
                /\ job.source = env_name[r]
                /\ job.id \notin {<<r, j>> : j \in DOMAIN jobs[r]}

\* the index step of run r has been started
IndexStarted(r) == RecordsOf(r, "index", {"started"}) # {}

\* C35: when an id list is given to the index step, total is the length
\* of the list whatever the collection holds, the ids dispatched are no
\* more than the list has, and the empty list dispatches no batch.
C35_IdListIsUniverse ==
    \A r \in RunIds :
        ids[r].given /\ IndexStarted(r) =>
            /\ total[r] = ids[r].len
            /\ SumTo(LAMBDA j : DispatchedIds(r, j), 1, Len(jobs[r])) <= ids[r].len
            /\ ids[r].len = 0 => jobs[r] = <<>>

PreSucceeded(r) == PreEnded(r) /\ registrar[r][2].state = "succeeded"

PreFailed(r) == PreEnded(r) /\ registrar[r][2].state = "failed"

\* C39: of two runs with mode 'index' on one destination that did not
\* exist, at most one has a pre step that succeeded; once one has, the
\* pre step of the other ends `failed` with the error raised to its
\* caller, and that run dispatches no batch; the index is created once.
C39_OnePreSucceeds ==
    \A r1, r2 \in RunIds :
        r1 # r2 /\ Dest(r1) = Dest(r2) /\ mode[r1] = "index" /\ mode[r2] = "index" =>
            /\ ~(PreSucceeded(r1) /\ PreSucceeded(r2))
            /\ es_created[Dest(r1)] <= 1
            /\ PreSucceeded(r1) =>
                  /\ jobs[r2] = <<>>
                  /\ PreEnded(r2) =>
                        /\ PreFailed(r2)
                        /\ pc[r2] = "done"
                        /\ outcome[r2] = Raised(registrar[r2][2].err)

\* both runs found the destination missing; the second create was refused
\* after the first run had dispatched its batch
C39_Witness ==
    /\ Dest(1) = Dest(2)
    /\ PreSucceeded(1)
    /\ jobs[1] # <<>>
    /\ es_at_pre[2] = 0
    /\ PreFailed(2)
    /\ registrar[2][2].err = Err("RequestError", 0)

\* the count job j of run r has added to the run's finished counter
CountedBy(r, j) == IF Reported(r, j) /\ jobs[r][j].fut = "ok" THEN jobs[r][j].count ELSE 0

\* C32: with two runs interleaved, what a run holds in its error cell and
\* what it raises is a failure of one of its own jobs, a run cancels jobs
\* only after a failure of its own, and its finished counter is the sum of
\* the counts its own jobs reported.
C32_RunsOwnTheirCells ==
    \A r \in RunIds :
        /\ error[r] # NoErr =>
              /\ error[r].job \in DOMAIN jobs[r]
              /\ jobs[r][error[r].job].fut = "err"
        /\ BatchFailureRaised(r) =>
              /\ outcome[r].err.job \in DOMAIN jobs[r]
              /\ jobs[r][outcome[r].err.job].fut = "err"
        /\ (\E j \in DOMAIN jobs[r] : jobs[r][j].fut = "cancelled") =>
              \E k \in DOMAIN jobs[r] : jobs[r][k].fut = "err"
        /\ finished[r] = SumTo(LAMBDA j : CountedBy(r, j), 1, Len(jobs[r]))

\* the failure of the second run's job is recorded while the first run is
\* in its loop with a job running, and the first run goes on dispatching
C32_Witness ==
    /\ error[2] # NoErr
    /\ error[1] = NoErr
    /\ pc[1] = "admission"
    /\ Len(jobs[1]) >= 1
    /\ jobs[1][1].fut = "running"
    /\ finished[1] = 0

\* the index step of run r has recorded its terminal status
IndexEnded(r) == RecordsOf(r, "index", {"succeeded", "failed"}) # {}

\* the jobs list of run r stays as it is but for the state of its jobs, or
\* gains one job at its end: the batch of the next number, with the ids
\* the Schedule counts for that number
DispatchesNext(r) ==
    \/ /\ Len(jobs'[r]) = Len(jobs[r])
    \/ /\ jobs'[r] = Append(jobs[r], Job("running", TRUE, 0))
       /\ batch_num(Len(jobs'[r])) = Len(jobs[r])
       /\ batch_num(Len(jobs'[r])) < NumBatches(total[r], batch_size[r])
       /\ DispatchedIds(r, Len(jobs'[r]))
             = BatchLen(total[r], batch_size[r], batch_num(Len(jobs'[r])))

\* the counts of the jobs add up whatever the order in which they ended,
\* and with them the result of the step is fixed
ResultAnyOrder(r) ==
    AllJobsOk(r) /\ IndexEnded(r) =>
        LET sum == SumTo(LAMBDA j : jobs[r][j].count, 1, Len(jobs[r]))
            i == CHOOSE x \in RecordsOf(r, "index", {"succeeded", "failed"}) : TRUE
        IN  /\ finished[r] = sum
            /\ IF mode[r] = "resume" \/ sum = total[r]
               THEN /\ registrar[r][i] = StatusRecord("index", "succeeded", NoErr, total[r])
                    /\ cnt[r] = total[r]
               ELSE /\ registrar[r][i] = StatusRecord("index", "failed",
                                                      Err("ScheduleMismatch", 0), 0)
                    /\ outcome[r] = Raised(Err("ScheduleMismatch", 0))

\* C33: batches are dispatched one at a time in the order of their batch
\* numbers 0, 1, 2, ..., none skipped or repeated, and whatever the order
\* in which successful batches complete, finished ends as the sum of their
\* counts and the step's result follows from that sum alone.
C33_DispatchInOrderResultAnyOrder ==
    /\ [](\A r \in RunIds : ResultAnyOrder(r))
    /\ [][\A r \in RunIds : DispatchesNext(r)]_vars

\* the second of three batches completed and was counted while the first
\* was still running
C33_Witness ==
    \E r \in RunIds :
        /\ Len(jobs[r]) = 3
        /\ jobs[r][1].fut = "running"
        /\ jobs[r][2].fut = "ok"
        /\ Reported(r, 2)
        /\ finished[r] = jobs[r][2].count
        /\ finished[r] > 0

\* call s deleted a snapshot of the name before it created its own
DeletedFirst(s) ==
    \E i \in DOMAIN cloud.log : cloud.log[i] = CloudCall("delete", "snapshot", s, TRUE)

\* the results of the steps of call s, merged in step order up to step k
MergedUpTo(s, k) ==
    CumulativeResult(k >= 1,
                     IF k < 2 THEN "none" ELSE IF DeletedFirst(s) THEN "true" ELSE "false")

\* the value returned, and the value each `succeeded` record holds
ResultsMerged(s) ==
    LET reg == snap_registrar[s]
    IN  /\ \A i \in DOMAIN reg :
              reg[i].state = "succeeded" => reg[i].count = MergedUpTo(s, i \div 2)
        /\ snap[s].pc = "done" =>
              /\ snap_outcome[s] = Returned(MergedUpTo(s, Len(SnapSteps)))
              /\ snap_x[s] = MergedUpTo(s, Len(SnapSteps))

\* C34 as stated: the value returned on success is the merge, in step
\* order, of the pre, snapshot and post results, each `succeeded` record
\* holds the cumulative result up to and including its step, and the
\* function of each later step is called with the cumulative result.
C34_CumulativeResultCarried ==
    \A s \in SnapIds :
        /\ ResultsMerged(s)
        /\ snap[s].pc = "join" /\ snap[s].step > 1 => "x" \in StepArguments

\* C34 as amended: the value returned on success is the merge, in step
\* order, of the pre, snapshot and post results, and each `succeeded`
\* record holds the cumulative result up to and including its step; the
\* cumulative result stays with the coroutine, the function of a step is
\* called with the formatted config, the index and the snapshot name.
C34_CumulativeResultMerged ==
    \A s \in SnapIds :
        /\ ResultsMerged(s)
        /\ snap[s].pc = "join" => StepArguments = {"cfg", "index", "snapshot"}

\* a call that replaced the snapshot of an earlier call has returned
C34_Witness ==
    \E s \in SnapIds :
        /\ snap[s].pc = "done"
        /\ Len(snap_registrar[s]) = 6
        /\ snap_registrar[s][2].count = CumulativeResult(TRUE, "none")
        /\ snap_registrar[s][6].count = CumulativeResult(TRUE, "true")
        /\ snap_outcome[s] = Returned(CumulativeResult(TRUE, "true"))

\* the registrar of call s holds a terminal record of the snapshot step
SnapshotStepEnded(s) ==
    \E i \in DOMAIN snap_registrar[s] :
        /\ snap_registrar[s][i].step = "snapshot"
        /\ snap_registrar[s][i].state \in {"succeeded", "failed"}

\* the remote snapshot has left IN_PROGRESS
RemoteSettled == snapshot_state # "IN_PROGRESS"

\* C36: under fair scheduling of the thread and the coroutine, if the
\* remote snapshot eventually reaches and stays in a state other than
\* IN_PROGRESS, a snapshot step that is in its poll loop eventually ends,
\* and a terminal record (succeeded or failed) of the step is written.
C36_PollLoopTerminates ==
    (<>[]RemoteSettled) =>
        \A s \in SnapIds : ThreadAt(s, "poll") ~> SnapshotStepEnded(s)

\* a poll loop that slept at least once has read SUCCESS and the step's
\* succeeded record is written
C36_Witness ==
    \E s \in SnapIds :
        /\ thread[s].polls >= 1
        /\ thread[s].observed = "SUCCESS"
        /\ snap[s].step = 3
        /\ SnapshotStepEnded(s)

\* C37: under fair scheduling, when every dispatch call returns a job and
\* every dispatched job completes, fails or is cancelled, an index step
\* that has recorded `started` eventually records `succeeded` or `failed`
\* and do_index has ended by then; it never stays `started` forever.
C37_IndexStepTerminates ==
    \A r \in SingleRun :
        IndexStarted(r) ~> (IndexEnded(r) /\ pc[r] \notin {"yield", "admission", "gather"})

\* an index step of several batches has ended after a job failed and
\* another was cancelled
C37_Witness ==
    \E r \in SingleRun :
        /\ IndexEnded(r)
        /\ Len(jobs[r]) >= 2
        /\ \E j \in DOMAIN jobs[r] : jobs[r][j].fut = "err"
        /\ \E j \in DOMAIN jobs[r] : jobs[r][j].fut = "cancelled"

\* call t deleted the snapshot of the name after call s had it created
DeletedAfterCreate(s, t) ==
    \E i, j \in DOMAIN cloud.log :
        /\ i < j
        /\ cloud.log[i] = CloudCall("create", "snapshot", s, TRUE)
        /\ cloud.log[j] = CloudCall("delete", "snapshot", t, TRUE)

\* C38: of two concurrent snapshot calls on the same repository and
\* snapshot name, neither deletes the snapshot the other has created and
\* is still polling, and a call that has issued its create never reads
\* MISSING in its poll loop because of the other call's delete.
C38_NoDeleteWhilePolled ==
    \A s, t \in SnapIds :
        s # t /\ snap[s].step = 2 /\ snap[s].pc = "join" /\ DeletedAfterCreate(s, t) =>
            /\ thread[s].pc # "poll"
            /\ thread[s].observed # "MISSING"

====
